---- MODULE Spec2Model ----
(***************************************************************************)
(* A model of the AirMouse server's motion pipeline                        *)
(* (src/server/airmouse_server): the IMU trackers, the direction vote, the *)
(* per-tick fusion, the smoother, and the session with its I/O task and    *)
(* its motion-loop thread.                                                 *)
(*                                                                         *)
(* Numbers.  The code computes in IEEE doubles; the model computes in      *)
(* integers on a fixed-point grid:                                         *)
(*   - pixel quantities (pending sums, last, last_out, smoother state,     *)
(*     fusion thresholds) are in hundredths of a pixel;                    *)
(*   - times are in milliseconds;                                          *)
(*   - factors below one are kept as a numerator over a stated             *)
(*     denominator, and a product that leaves the grid is rounded toward   *)
(*     zero (TruncDiv), where the double is rounded to nearest.            *)
(* A magnitude test math.hypot(x, y) < t is the test x*x + y*y < t*t.      *)
(***************************************************************************)
EXTENDS Integers, Sequences, FiniteSets, TLC

----------------------------------------------------------------------------
(* Arithmetic helpers *)

Abs(x) == IF x < 0 THEN -x ELSE x

\* Division rounding toward zero: the grid's stand-in for float rounding.
TruncDiv(n, d) == IF n >= 0 THEN n \div d ELSE -((-n) \div d)

Px(n) == n * 100

\* math.hypot(dx, dy) < t, <= t, >= t
MagLt(dx, dy, t) == t > 0 /\ dx * dx + dy * dy < t * t
MagLe(dx, dy, t) == t >= 0 /\ dx * dx + dy * dy <= t * t
MagGe(dx, dy, t) == ~MagLt(dx, dy, t)

\* imu.MotionDelta
MotionDelta(dx, dy, ts_ms, valid) ==
    [dx |-> dx, dy |-> dy, ts_ms |-> ts_ms, valid |-> valid]

----------------------------------------------------------------------------
(* consensus.py *)

\* 1000 * tan(d) for d = 0, 10, ..., 80 degrees, rounded to nearest.
TanMilliTable == <<0, 176, 364, 577, 839, 1192, 1732, 2747, 5671>>
TanMilli(deg) == TanMilliTable[(deg \div 10) + 1]

\* math.atan2(0, 0) is 0: a zero vector points along +x.
Dir(dx, dy) == IF dx = 0 /\ dy = 0 THEN <<1, 0>> ELSE <<dx, dy>>

\* _angle_diff(_angle(p), _angle(v)) <= math.radians(deg): the unsigned
\* angle between p and v, in [0, 180], against deg (a multiple of ten).
\* For an angle a below 90, a <= deg iff |cross| <= tan(deg) * dot.
AngleDiffLe(pdx, pdy, vdx, vdy, deg) ==
    LET p == Dir(pdx, pdy)
        v == Dir(vdx, vdy)
        dot == p[1] * v[1] + p[2] * v[2]
        cross == Abs(p[1] * v[2] - p[2] * v[1])
    IN  IF deg >= 180 THEN TRUE
        ELSE IF deg < 0 THEN FALSE
        ELSE IF deg = 90 THEN dot >= 0
        ELSE IF deg < 90 THEN dot > 0 /\ cross <= (TanMilli(deg) * dot) \div 1000
        ELSE dot >= 0 \/ cross * 1000 >= TanMilli(180 - deg) * (-dot)

VoteResult(ok, total_votes, yes_votes) ==
    [ok |-> ok, total_votes |-> total_votes, yes_votes |-> yes_votes]

\* The validators the loop of majority_validate_direction does not skip.
CountedValidatorsBug(primary, validators, max_age_ms, min_mag) ==
    {i \in 1..Len(validators) :
        /\ validators[i].valid
        /\ primary.ts_ms - validators[i].ts_ms <= max_age_ms
        /\ ~MagLt(validators[i].dx, validators[i].dy, min_mag)}
CountedValidators(primary, validators, max_age_ms, min_mag) ==
    {i \in 1..Len(validators) :
        /\ validators[i].valid
        /\ Abs(primary.ts_ms - validators[i].ts_ms) <= max_age_ms
        /\ ~MagLt(validators[i].dx, validators[i].dy, min_mag)}

\* The vote proper (consensus.py 44-63).
CountVotesBug(primary, validators, max_age_ms, min_mag, max_angle_deg) ==
    LET counted == CountedValidators(primary, validators, max_age_ms, min_mag)
        agree == {i \in counted :
                    AngleDiffLe(primary.dx, primary.dy,
                                validators[i].dx, validators[i].dy,
                                max_angle_deg)}
        votes == 1 + Cardinality(counted)
        yes == 1 + Cardinality(agree)
    IN  VoteResult(2 * yes >= votes, votes, yes)
CountVotes(primary, validators, max_age_ms, min_mag, max_angle_deg) ==
    LET counted == CountedValidators(primary, validators, max_age_ms, min_mag)
        agree == {i \in counted :
                    AngleDiffLe(primary.dx, primary.dy,
                                validators[i].dx, validators[i].dy,
                                max_angle_deg)}
        votes == 1 + Cardinality(counted)
        yes == 1 + Cardinality(agree)
    IN  VoteResult(yes >= (votes \div 2) + 1, votes, yes)

majority_validate_directionBug(primary, validators, max_age_ms, min_mag, max_angle_deg) ==
    IF ~primary.valid THEN VoteResult(FALSE, 0, 0)
    ELSE CountVotes(primary, validators, max_age_ms, min_mag, max_angle_deg)

majority_validate_direction(primary, validators, max_age_ms, min_mag, max_angle_deg) ==
    IF ~primary.valid THEN VoteResult(FALSE, 0, 0)
    ELSE IF MagLt(primary.dx, primary.dy, min_mag) THEN VoteResult(TRUE, 1, 1)
    ELSE CountVotes(primary, validators, max_age_ms, min_mag, max_angle_deg)

----------------------------------------------------------------------------
(* fusion.py *)

IMU_SOURCES == {"accel", "gyro", "orientation"}
AUTHORITATIVE_SOURCES == {"camera", "delta"}
Priority == <<"camera", "delta", "accel", "orientation", "gyro">>

\* FusionConfig(): pixel fields in hundredths of a pixel,
\* weak_fallback_scale in hundredths.
FusionConfigDefault ==
    [camera_gate_enabled |-> TRUE,
     camera_max_age_ms |-> 250,
     camera_still_px |-> 35,
     camera_validator_min_px |-> 75,
     imu_min_px_when_camera_still |-> 250,
     imu_opposite_max_px_when_camera_still |-> 600,
     max_angle_deg |-> 40,
     min_mag |-> 1,
     weak_fallback_scale |-> 35]

\* A dict is a sequence of entries in insertion order, keys distinct:
\* pending holds [src, dx, dy].
Keys(d) == {d[i].src : i \in 1..Len(d)}
Entry(d, s) == d[CHOOSE i \in 1..Len(d) : d[i].src = s]

\* enabled.get(source, False)
IsEnabledBug(enabled, s) == TRUE
IsEnabled(enabled, s) == s \in DOMAIN enabled /\ enabled[s]

\* The non-zero entries of pending, in order (fusion.py 41-45).
MotionsBug(pending) == pending
Motions(pending) == SelectSeq(pending, LAMBDA e : ~(e.dx = 0 /\ e.dy = 0))

\* next((s for s in priority if s in motions), next(iter(motions.keys())))
PrimarySourceBug(motions) == motions[1].src
PrimarySource(motions) ==
    LET hits == {i \in 1..Len(Priority) : Priority[i] \in Keys(motions)}
    IN  IF hits # {}
        THEN Priority[CHOOSE i \in hits : \A j \in hits : i <= j]
        ELSE motions[1].src

\* cam = last_motion.get("camera") if enabled.get("camera", False) else None
HasCam(enabled, last_motion) ==
    IsEnabled(enabled, "camera") /\ "camera" \in DOMAIN last_motion

CamFreshBug(enabled, last_motion, now_ms, cfg) ==
    /\ cfg.camera_gate_enabled
    /\ HasCam(enabled, last_motion)
    /\ last_motion["camera"].valid
    /\ now_ms - last_motion["camera"].ts_ms <= cfg.camera_max_age_ms
CamFresh(enabled, last_motion, now_ms, cfg) ==
    /\ cfg.camera_gate_enabled
    /\ HasCam(enabled, last_motion)
    /\ last_motion["camera"].valid
    /\ now_ms - last_motion["camera"].ts_ms >= 0
    /\ now_ms - last_motion["camera"].ts_ms <= cfg.camera_max_age_ms

\* The camera stillness veto (fusion.py 72-81).
StillVetoAlways(primary_source, primary, enabled, last_motion, last_out, now_ms, cfg) ==
    /\ CamFresh(enabled, last_motion, now_ms, cfg)
    /\ primary_source \in IMU_SOURCES
    /\ MagLe(last_motion["camera"].dx, last_motion["camera"].dy, cfg.camera_still_px)
    /\ MagLe(primary.dx, primary.dy, cfg.imu_opposite_max_px_when_camera_still)
StillVetoNoOpposite(primary_source, primary, enabled, last_motion, last_out, now_ms, cfg) ==
    /\ CamFresh(enabled, last_motion, now_ms, cfg)
    /\ primary_source \in IMU_SOURCES
    /\ MagLe(last_motion["camera"].dx, last_motion["camera"].dy, cfg.camera_still_px)
    /\ MagLe(primary.dx, primary.dy, cfg.imu_min_px_when_camera_still)
StillVeto(primary_source, primary, enabled, last_motion, last_out, now_ms, cfg) ==
    /\ CamFresh(enabled, last_motion, now_ms, cfg)
    /\ primary_source \in IMU_SOURCES
    /\ MagLe(last_motion["camera"].dx, last_motion["camera"].dy, cfg.camera_still_px)
    /\ LET opposite_prev ==
               /\ (last_out[1] # 0 \/ last_out[2] # 0)
               /\ primary.dx * last_out[1] + primary.dy * last_out[2] < 0
       IN  \/ MagLe(primary.dx, primary.dy, cfg.imu_min_px_when_camera_still)
           \/ /\ opposite_prev
              /\ MagLe(primary.dx, primary.dy, cfg.imu_opposite_max_px_when_camera_still)

\* The camera entry of last joins the validators (fusion.py 84-85).
CamAppended(motions, enabled, last_motion, now_ms, cfg) ==
    /\ CamFresh(enabled, last_motion, now_ms, cfg)
    /\ "camera" \notin Keys(motions)
    /\ MagGe(last_motion["camera"].dx, last_motion["camera"].dy,
             cfg.camera_validator_min_px)

\* validators (fusion.py 83-85)
ValidatorsBug(motions, primary_source, enabled, last_motion, now_ms, cfg) ==
    LET others == SelectSeq(motions, LAMBDA e : e.src # primary_source)
    IN  [i \in 1..Len(others) |->
            MotionDelta(others[i].dx, others[i].dy, now_ms, TRUE)]
Validators(motions, primary_source, enabled, last_motion, now_ms, cfg) ==
    LET others == SelectSeq(motions, LAMBDA e : e.src # primary_source)
        vs == [i \in 1..Len(others) |->
                  MotionDelta(others[i].dx, others[i].dy, now_ms, TRUE)]
    IN  IF CamAppended(motions, enabled, last_motion, now_ms, cfg)
        THEN Append(vs, last_motion["camera"])
        ELSE vs

\* cam_fresh and v is cam, for the single validator v (fusion.py 113): the
\* one validator is the appended camera entry, not an entry of motions.
VIsCamBug(validators, motions, enabled, last_motion, now_ms, cfg) == FALSE
VIsCam(validators, motions, enabled, last_motion, now_ms, cfg) ==
    /\ CamFresh(enabled, last_motion, now_ms, cfg)
    /\ CamAppended(motions, enabled, last_motion, now_ms, cfg)
    /\ Len(validators) = 1

\* primary * cfg.weak_fallback_scale
WeakScaleBug(primary, cfg) == <<primary.dx, primary.dy>>
WeakScale(primary, cfg) ==
    <<TruncDiv(primary.dx * cfg.weak_fallback_scale, 100),
      TruncDiv(primary.dy * cfg.weak_fallback_scale, 100)>>

\* fusion.py 87-132
ArbitrateBug(motions, primary_source, primary, enabled, last_motion, last_out, now_ms, cfg) ==
    LET validators == Validators(motions, primary_source, enabled, last_motion, now_ms, cfg)
    IN  IF Len(validators) >= 1
        THEN <<validators[1].dx, validators[1].dy>>
        ELSE <<primary.dx, primary.dy>>
Arbitrate(motions, primary_source, primary, enabled, last_motion, last_out, now_ms, cfg) ==
    LET validators == Validators(motions, primary_source, enabled, last_motion, now_ms, cfg)
        vote == majority_validate_direction(primary, validators,
                    cfg.camera_max_age_ms, cfg.min_mag, cfg.max_angle_deg)
        prev == MotionDelta(last_out[1], last_out[2], now_ms, TRUE)
        tie == majority_validate_direction(primary, <<prev>>,
                    10000, cfg.min_mag, cfg.max_angle_deg)
    IN  IF Len(validators) >= 2
        THEN IF ~vote.ok THEN <<0, 0>> ELSE <<primary.dx, primary.dy>>
        ELSE IF Len(validators) = 1
        THEN IF vote.ok THEN <<primary.dx, primary.dy>>
             ELSE IF VIsCam(validators, motions, enabled, last_motion, now_ms, cfg)
             THEN <<0, 0>>
             ELSE IF last_out[1] = 0 /\ last_out[2] = 0
             THEN WeakScale(primary, cfg)
             ELSE IF tie.ok THEN <<primary.dx, primary.dy>>
             ELSE WeakScale(primary, cfg)
        ELSE <<primary.dx, primary.dy>>

\* The local primary_source of compute_raw_delta (fusion.py 47-52), "none"
\* when the function returns before choosing one.
primary_source_of(pending) ==
    IF Len(Motions(pending)) = 0 THEN "none"
    ELSE PrimarySource(Motions(pending))

compute_raw_delta(pending, enabled, last_motion, last_out, now_ms, cfg) ==
    LET motions == Motions(pending)
    IN  IF Len(motions) = 0 THEN <<0, 0>>
        ELSE
            LET primary_source == PrimarySource(motions)
                e == Entry(motions, primary_source)
                primary == MotionDelta(e.dx, e.dy, now_ms, TRUE)
            IN  IF primary_source = "camera" /\ ~IsEnabled(enabled, "camera")
                THEN <<0, 0>>
                ELSE IF primary_source \in IMU_SOURCES /\ ~IsEnabled(enabled, primary_source)
                THEN <<0, 0>>
                ELSE IF primary_source \in AUTHORITATIVE_SOURCES
                THEN <<primary.dx, primary.dy>>
                ELSE IF StillVeto(primary_source, primary, enabled, last_motion,
                                  last_out, now_ms, cfg)
                THEN <<0, 0>>
                ELSE Arbitrate(motions, primary_source, primary, enabled,
                               last_motion, last_out, now_ms, cfg)

----------------------------------------------------------------------------
(* smoothing.py *)

\* SmoothingConfig with MotionSmoother._sx, _sy; pixel fields in hundredths
\* of a pixel.
SmootherState(half_life_ms, deadzone_px, max_step_px, sx, sy) ==
    [half_life_ms |-> half_life_ms, deadzone_px |-> deadzone_px,
     max_step_px |-> max_step_px, sx |-> sx, sy |-> sy]

\* 1000 * (1 - 2^(-q/4)) for q = 0..16, rounded to nearest: the value of
\* 1 - exp(-ln 2 * dt_ms / half_life_ms) where q = 4 * dt_ms / half_life_ms.
AlphaMilliTable ==
    <<0, 159, 293, 405, 500, 580, 646, 703, 750,
      790, 823, 851, 875, 895, 912, 926, 938>>
AlphaMilli(dt_ms, half_life_ms) ==
    LET q == (4 * dt_ms) \div half_life_ms
    IN  AlphaMilliTable[(IF q > 16 THEN 16 ELSE q) + 1]

\* MotionSmoother.update_config
SmootherUpdateConfig(s, half_life_ms, deadzone_px, max_step_px) ==
    [s EXCEPT !.half_life_ms = half_life_ms, !.deadzone_px = deadzone_px,
              !.max_step_px = max_step_px]

\* MotionSmoother.reset
SmootherReset(s) == [s EXCEPT !.sx = 0, !.sy = 0]

\* apply, lines 35-41: the filter step.  Returns the state and the locals.
SmootherFilter(s, dx, dy, dt_ms) ==
    IF dt_ms <= 0 \/ s.half_life_ms <= 0
    THEN [state |-> s, sx |-> dx, sy |-> dy]
    ELSE
        LET alpha == AlphaMilli(dt_ms, s.half_life_ms)
            nsx == s.sx + TruncDiv((dx - s.sx) * alpha, 1000)
            nsy == s.sy + TruncDiv((dy - s.sy) * alpha, 1000)
        IN  [state |-> [s EXCEPT !.sx = nsx, !.sy = nsy], sx |-> nsx, sy |-> nsy]

Clip(x, max_step) ==
    IF x > max_step THEN max_step ELSE IF x < -max_step THEN -max_step ELSE x

\* apply, lines 48-55: the clamp and its write-back.
SmootherClampBug(s, sx, sy) == [state |-> s, out |-> <<sx, sy>>]
SmootherClamp(s, sx, sy) ==
    IF s.max_step_px > 0
    THEN LET cx == Clip(sx, s.max_step_px)
             cy == Clip(sy, s.max_step_px)
         IN  [state |-> [s EXCEPT !.sx = cx, !.sy = cy], out |-> <<cx, cy>>]
    ELSE [state |-> s, out |-> <<sx, sy>>]

\* apply, lines 43-55: deadzone, clamp, write-back, from the locals sx, sy.
SmootherFinish(s, sx, sy) ==
    IF s.deadzone_px > 0 /\ MagLt(sx, sy, s.deadzone_px)
    THEN [state |-> [s EXCEPT !.sx = 0, !.sy = 0], out |-> <<0, 0>>]
    ELSE SmootherClamp(s, sx, sy)

\* MotionSmoother.apply
SmootherApply(s, dx, dy, dt_ms) ==
    LET f == SmootherFilter(s, dx, dy, dt_ms)
    IN  SmootherFinish(f.state, f.sx, f.sy)

----------------------------------------------------------------------------
(* imu.py *)

\* None and a present value
None == <<>>
Some(v) == <<v>>

\* A field of a sample dict: absent, a value float() rejects, or a number.
Missing == [k |-> "missing", v |-> 0]
Bad == [k |-> "bad", v |-> 0]
Num(v) == [k |-> "num", v |-> v]

\* _parse_ts_ms: None, or the timestamp
ParseTsBug(sample) == Some(sample.ts.v)
ParseTs(sample) == IF sample.ts.k = "num" THEN Some(sample.ts.v) ELSE None

\* dt <= 0 or dt > 0.2
DtGapBug(dt_ms) == dt_ms < 0 \/ dt_ms > 200
DtGap(dt_ms) == dt_ms <= 0 \/ dt_ms > 200

\* (prev > 0.0) != (new > 0.0), for prev # 0.0: the zero-crossing clamp
ZeroCrossBug(prev, new) == new
ZeroCross(prev, new) ==
    IF prev # 0 /\ ((prev > 0) # (new > 0)) THEN 0 ELSE new

Invalid(ts_ms) == MotionDelta(0, 0, ts_ms, FALSE)

\* AccelTracker(): accelerations in 0.01 m/s^2, hp_tau in ms, friction in
\* hundredths; velocities and deltas in 1e-5.
AccelParams ==
    [accel_gain |-> 50, friction |-> 80, hp_tau_ms |-> 350,
     deadzone_mps2 |-> 8, start_mps2 |-> 22]

\* AccelTracker.__init__ / reset
AccelInit ==
    [vx |-> 0, vy |-> 0, last_ts_ms |-> None, prev_ax |-> None,
     prev_ay |-> None, hp_ax |-> 0, hp_ay |-> 0]

\* AccelTracker.process_sample, lines 95-124: the high-pass memory and the
\* damped velocity update, before the zero-crossing clamp.
AccelDampedBug(t, ax, ay, dt) ==
    LET P == AccelParams
        hp_ax == TruncDiv(P.hp_tau_ms * (t.hp_ax + ax - t.prev_ax[1]),
                          P.hp_tau_ms + dt)
        hp_ay == TruncDiv(P.hp_tau_ms * (t.hp_ay + ay - t.prev_ay[1]),
                          P.hp_tau_ms + dt)
        dead == P.deadzone_mps2 > 0 /\ MagLt(hp_ax, hp_ay, P.deadzone_mps2)
        ax_in == IF dead THEN 0 ELSE hp_ax
        ay_in == IF dead THEN 0 ELSE hp_ay
    IN  [hp_ax |-> hp_ax, hp_ay |-> hp_ay,
         vx |-> TruncDiv(t.vx * P.friction, 100) + ax_in * dt * P.accel_gain,
         vy |-> TruncDiv(t.vy * P.friction, 100) + ay_in * dt * P.accel_gain]
AccelDamped(t, ax, ay, dt) ==
    LET P == AccelParams
        hp_on == P.hp_tau_ms > 0
        hp_ax == IF hp_on
                 THEN TruncDiv(P.hp_tau_ms * (t.hp_ax + ax - t.prev_ax[1]),
                               P.hp_tau_ms + dt)
                 ELSE t.hp_ax
        hp_ay == IF hp_on
                 THEN TruncDiv(P.hp_tau_ms * (t.hp_ay + ay - t.prev_ay[1]),
                               P.hp_tau_ms + dt)
                 ELSE t.hp_ay
        ax0 == IF hp_on THEN hp_ax ELSE ax
        ay0 == IF hp_on THEN hp_ay ELSE ay
        dead == P.deadzone_mps2 > 0 /\ MagLt(ax0, ay0, P.deadzone_mps2)
        ax1 == IF dead THEN 0 ELSE ax0
        ay1 == IF dead THEN 0 ELSE ay0
        rest == /\ t.vx = 0 /\ t.vy = 0 /\ P.start_mps2 > 0
                /\ MagLt(ax1, ay1, P.start_mps2)
        ax_in == IF rest THEN 0 ELSE ax1
        ay_in == IF rest THEN 0 ELSE ay1
    IN  [hp_ax |-> hp_ax, hp_ay |-> hp_ay,
         vx |-> TruncDiv(t.vx * P.friction, 100) + ax_in * dt * P.accel_gain,
         vy |-> TruncDiv(t.vy * P.friction, 100) + ay_in * dt * P.accel_gain]

\* AccelTracker.process_sample, lines 87-129: a sample with dt in (0, 0.2].
AccelIntegrate(t, ts, ax, ay, dt) ==
    LET d == AccelDamped(t, ax, ay, dt)
        hp_ax == d.hp_ax
        hp_ay == d.hp_ay
        vx == ZeroCross(t.vx, d.vx)
        vy == ZeroCross(t.vy, d.vy)
    IN  [state |-> [vx |-> vx, vy |-> vy, last_ts_ms |-> Some(ts),
                    prev_ax |-> Some(ax), prev_ay |-> Some(ay),
                    hp_ax |-> hp_ax, hp_ay |-> hp_ay],
         out |-> MotionDelta(TruncDiv(vx * dt, 1000), TruncDiv(vy * dt, 1000),
                             ts, TRUE)]

\* AccelTracker.process_sample
AccelProcess(t, sample) ==
    LET ts == ParseTs(sample)
    IN  IF ts = None \/ sample.ax.k = "missing" \/ sample.ay.k = "missing"
        THEN [state |-> t, out |-> Invalid(0)]
        ELSE IF sample.ax.k = "bad" \/ sample.ay.k = "bad"
        THEN [state |-> t, out |-> Invalid(ts[1])]
        ELSE IF t.last_ts_ms = None
        THEN [state |-> [t EXCEPT !.last_ts_ms = ts,
                                  !.prev_ax = Some(sample.ax.v),
                                  !.prev_ay = Some(sample.ay.v)],
              out |-> Invalid(ts[1])]
        ELSE IF DtGap(ts[1] - t.last_ts_ms[1])
        THEN [state |-> [vx |-> 0, vy |-> 0, last_ts_ms |-> ts,
                         prev_ax |-> Some(sample.ax.v),
                         prev_ay |-> Some(sample.ay.v),
                         hp_ax |-> 0, hp_ay |-> 0],
              out |-> Invalid(ts[1])]
        ELSE IF t.prev_ax = None \/ t.prev_ay = None
        THEN [state |-> [t EXCEPT !.last_ts_ms = ts,
                                  !.prev_ax = Some(sample.ax.v),
                                  !.prev_ay = Some(sample.ay.v)],
              out |-> Invalid(ts[1])]
        ELSE AccelIntegrate(t, ts[1], sample.ax.v, sample.ay.v,
                            ts[1] - t.last_ts_ms[1])

\* GyroTracker(): rates in deg/s, gain in tenths, friction in hundredths;
\* velocities and deltas in 1e-4.
GyroParams == [gyro_gain |-> 7, friction |-> 86]

\* GyroTracker.__init__ / reset
GyroInitBug == [vx |-> 0, vy |-> 0, last_ts_ms |-> Some(-20)]
GyroInit == [vx |-> 0, vy |-> 0, last_ts_ms |-> None]

\* GyroTracker.process_sample, lines 170-171: the damped velocity update,
\* before the zero-crossing clamp.
GyroDamped(t, gy, gz, dt) ==
    [vx |-> TruncDiv(t.vx * GyroParams.friction, 100)
            + gz * dt * GyroParams.gyro_gain,
     vy |-> TruncDiv(t.vy * GyroParams.friction, 100)
            + gy * dt * GyroParams.gyro_gain]

\* GyroTracker.process_sample
GyroProcess(t, sample) ==
    LET ts == ParseTs(sample)
    IN  IF ts = None \/ sample.gy.k = "missing" \/ sample.gz.k = "missing"
        THEN [state |-> t, out |-> Invalid(0)]
        ELSE IF sample.gy.k = "bad" \/ sample.gz.k = "bad"
        THEN [state |-> t, out |-> Invalid(ts[1])]
        ELSE IF t.last_ts_ms = None
        THEN [state |-> [t EXCEPT !.last_ts_ms = ts], out |-> Invalid(ts[1])]
        ELSE IF DtGap(ts[1] - t.last_ts_ms[1])
        THEN [state |-> [t EXCEPT !.last_ts_ms = ts], out |-> Invalid(ts[1])]
        ELSE
            LET dt == ts[1] - t.last_ts_ms[1]
                d == GyroDamped(t, sample.gy.v, sample.gz.v, dt)
                vx == ZeroCross(t.vx, d.vx)
                vy == ZeroCross(t.vy, d.vy)
            IN  [state |-> [vx |-> vx, vy |-> vy, last_ts_ms |-> ts],
                 out |-> MotionDelta(TruncDiv(vx * dt, 1000),
                                     TruncDiv(vy * dt, 1000), ts[1], TRUE)]

\* OrientationTracker(): angles in degrees, gain and friction in tenths;
\* velocities and deltas in tenths.
OrientationParams == [gain |-> 9, friction |-> 9]

\* OrientationTracker.__init__ / reset
OrientationInit ==
    [vx |-> 0, vy |-> 0, last_ts_ms |-> None, last_beta |-> None,
     last_gamma |-> None]

\* OrientationTracker._wrap_deg
WrapDegBug(delta) == delta
WrapDeg(delta) == ((delta + 180) % 360) - 180

\* OrientationTracker.process_sample
OrientationProcess(t, sample) ==
    LET ts == ParseTs(sample)
    IN  IF ts = None \/ sample.beta.k = "missing" \/ sample.gamma.k = "missing"
        THEN [state |-> t, out |-> Invalid(0)]
        ELSE IF sample.beta.k = "bad" \/ sample.gamma.k = "bad"
        THEN [state |-> t, out |-> Invalid(ts[1])]
        ELSE IF t.last_ts_ms = None \/ t.last_beta = None \/ t.last_gamma = None
        THEN [state |-> [t EXCEPT !.last_ts_ms = ts,
                                  !.last_beta = Some(sample.beta.v),
                                  !.last_gamma = Some(sample.gamma.v)],
              out |-> Invalid(ts[1])]
        ELSE IF DtGap(ts[1] - t.last_ts_ms[1])
        THEN [state |-> [t EXCEPT !.last_ts_ms = ts,
                                  !.last_beta = Some(sample.beta.v),
                                  !.last_gamma = Some(sample.gamma.v)],
              out |-> Invalid(ts[1])]
        ELSE
            LET d_beta == WrapDeg(sample.beta.v - t.last_beta[1])
                d_gamma == WrapDeg(sample.gamma.v - t.last_gamma[1])
                vx == (TruncDiv(t.vx * OrientationParams.friction, 10))
                      + d_gamma * OrientationParams.gain
                vy == (TruncDiv(t.vy * OrientationParams.friction, 10))
                      + d_beta * OrientationParams.gain
            IN  [state |-> [vx |-> vx, vy |-> vy, last_ts_ms |-> ts,
                            last_beta |-> Some(sample.beta.v),
                            last_gamma |-> Some(sample.gamma.v)],
                 out |-> MotionDelta(vx, vy, ts[1], TRUE)]

----------------------------------------------------------------------------
(* State *)

VARIABLES
    fz,             \* one call of compute_raw_delta: its arguments and result
    vt,             \* one call of majority_validate_direction
    smoother,       \* a MotionSmoother: its config and (_sx, _sy)
    sm_out,         \* what the last MotionSmoother.apply returned
    sm_calls,       \* how many smoother calls were made
    accel,          \* an AccelTracker
    gyro,           \* a GyroTracker
    orientation,    \* an OrientationTracker
    imu_trk,        \* the tracker the samples are fed to
    imu_n,          \* how many tracker calls were made
    imu_log,        \* the last two tracker calls, oldest first
    client,         \* which messages the connected client sends
    ses,            \* the ClientSession's plain fields
    vision,         \* the session's VisionTracker
    io,             \* the I/O task: its position and its locals
    ml,             \* the motion-loop thread: its position and its locals
    mouse,          \* the MouseController: the moves delivered
    clock,          \* time.monotonic(), in ms
    gh,             \* history: what was written to pending, what was drained
    sink,           \* the app's one MouseController and the threads calling it
    cf,             \* successive config messages handled with nothing in between
    vz              \* a VisionTracker fed frame after frame, and its last call

fusionVars == <<fz>>
voteVars == <<vt>>
smootherVars == <<smoother, sm_out, sm_calls>>
imuVars == <<accel, gyro, orientation, imu_trk, imu_n, imu_log>>
sessionVars == <<client, ses, vision, io, ml, mouse, clock, gh>>
sinkVars == <<sink>>
configVars == <<cf>>
visionVars == <<vz>>
\* what a session leaves alone
harnessVars ==
    <<fz, vt, sm_out, sm_calls, imu_trk, imu_n, imu_log, client, sink,
      cf, vz>>
vars == <<fz, vt, smoother, sm_out, sm_calls, accel, gyro, orientation,
          imu_trk, imu_n, imu_log, client, ses, vision, io, ml, mouse, clock,
          gh, sink, cf, vz>>

----------------------------------------------------------------------------
(* Calls of compute_raw_delta on drawn arguments *)

MaxPending == 2

Sources == {"camera", "delta", "accel", "orientation", "gyro"}
EnabledKeys == {"camera", "accel", "gyro", "orientation"}

FzNow == 1000

FzDeltas == {<<0, 0>>, <<Px(10), 0>>, <<0, Px(2)>>, <<-Px(4), 0>>}
\* Keys outside the priority list: compute_raw_delta takes any mapping.
FzOtherSources == {"other_a", "other_b"}
FzOtherDeltas == {<<0, 0>>, <<Px(10), 0>>}
FzEntries ==
    {[src |-> s, dx |-> d[1], dy |-> d[2]] : s \in Sources, d \in FzDeltas}
    \cup {[src |-> s, dx |-> d[1], dy |-> d[2]] :
              s \in FzOtherSources, d \in FzOtherDeltas}
FzPendings ==
    UNION {{p \in [1..n -> FzEntries] :
                \A i, j \in 1..n : i # j => p[i].src # p[j].src} :
           n \in 0..MaxPending}

FzEnabled ==
    {[k \in EnabledKeys |-> IF k = "camera" THEN c ELSE k \in on] :
        c \in BOOLEAN,
        on \in {IMU_SOURCES, {}, {"accel"}, {"gyro", "orientation"}}}

\* last_motion: no camera entry, or one that is invalid, stale, from the
\* future, or fresh (still, nearly still, moving along x, moving along y).
FzLasts ==
    {<<>>} \cup
    {[s \in {"camera"} |-> c] :
        c \in {MotionDelta(0, 0, FzNow - 10, FALSE),
               MotionDelta(Px(10), 0, FzNow - 300, TRUE),
               MotionDelta(Px(10), 0, FzNow + 10, TRUE),
               MotionDelta(0, 0, FzNow - 10, TRUE),
               MotionDelta(0, 20, FzNow - 10, TRUE),
               MotionDelta(Px(10), 0, FzNow - 10, TRUE),
               MotionDelta(0, Px(2), FzNow - 10, TRUE)}}

FzLastOuts == {<<0, 0>>, <<Px(5), 0>>, <<-Px(5), 0>>, <<-Px(2), 0>>}

FzConfigs ==
    {FusionConfigDefault,
     [FusionConfigDefault EXCEPT !.camera_gate_enabled = FALSE],
     [FusionConfigDefault EXCEPT !.min_mag = Px(3)],
     [FusionConfigDefault EXCEPT !.max_angle_deg = 90,
                                 !.weak_fallback_scale = 50]}

FzOff ==
    [pc |-> "off", pending |-> <<>>, enabled |-> <<>>, last_motion |-> <<>>,
     last_out |-> <<0, 0>>, now_ms |-> 0, config |-> FusionConfigDefault,
     primary |-> "none", out |-> <<0, 0>>]

FusionInit ==
    \E p \in FzPendings, e \in FzEnabled, l \in FzLasts, lo \in FzLastOuts,
       c \in FzConfigs :
        fz = [pc |-> "call", pending |-> p, enabled |-> e, last_motion |-> l,
              last_out |-> lo, now_ms |-> FzNow, config |-> c,
              primary |-> "none", out |-> <<0, 0>>]

FusionCall ==
    /\ fz.pc = "call"
    /\ fz' = [fz EXCEPT
                !.primary = primary_source_of(fz.pending),
                !.out = compute_raw_delta(fz.pending, fz.enabled, fz.last_motion,
                                          fz.last_out, fz.now_ms, fz.config),
                !.pc = "done"]
    /\ UNCHANGED <<voteVars, smootherVars, imuVars, sessionVars, sinkVars, configVars, visionVars>>

----------------------------------------------------------------------------
(* Calls of majority_validate_direction on drawn arguments *)

MaxValidators == 2

VtNow == FzNow

VtPrimaries ==
    {MotionDelta(d[1], d[2], VtNow, v) :
        d \in {<<0, 0>>, <<30, 0>>, <<Px(10), 0>>, <<0, -Px(10)>>},
        v \in BOOLEAN}

VtValidators ==
    {MotionDelta(0, 0, VtNow, TRUE),
     MotionDelta(Px(10), 0, VtNow, FALSE),
     MotionDelta(Px(10), 0, VtNow - 500, TRUE),
     MotionDelta(Px(10), 0, VtNow + 500, TRUE),
     MotionDelta(Px(10), Px(1), VtNow - 10, TRUE),
     MotionDelta(-Px(10), 0, VtNow + 10, TRUE),
     MotionDelta(0, Px(10), VtNow - 140, TRUE),
     MotionDelta(30, 30, VtNow, TRUE)}

VtLists == UNION {[1..n -> VtValidators] : n \in 0..MaxValidators}

VtOff ==
    [pc |-> "off", primary |-> MotionDelta(0, 0, 0, FALSE), validators |-> <<>>,
     max_age_ms |-> 0, min_mag |-> 0, max_angle_deg |-> 0,
     result |-> VoteResult(FALSE, 0, 0)]

VoteInit ==
    \E p \in VtPrimaries, l \in VtLists, m \in {1, 50}, a \in {40, 90} :
        vt = [pc |-> "call", primary |-> p, validators |-> l,
              max_age_ms |-> 140, min_mag |-> m, max_angle_deg |-> a,
              result |-> VoteResult(FALSE, 0, 0)]

VoteCall ==
    /\ vt.pc = "call"
    /\ vt' = [vt EXCEPT
                !.result = majority_validate_direction(vt.primary, vt.validators,
                               vt.max_age_ms, vt.min_mag, vt.max_angle_deg),
                !.pc = "done"]
    /\ UNCHANGED <<fusionVars, smootherVars, imuVars, sessionVars, sinkVars, configVars, visionVars>>

----------------------------------------------------------------------------
(* Calls of a MotionSmoother on drawn arguments *)

MaxCalls == 3

MAX_STEP_PX == 12000
DEFAULT_SMOOTHING_HALF_LIFE_MS == 80
DEFAULT_DEADZONE_PX == 25

SmHalfLives == {0, DEFAULT_SMOOTHING_HALF_LIFE_MS}
SmDeadzones == {0, DEFAULT_DEADZONE_PX}
SmMaxSteps == {0, MAX_STEP_PX}
SmDx == {-Px(200), 0, 10, Px(200)}
SmDy == {0, Px(200)}
SmDt == {0, 20, 80}

SmNoCall == [op |-> "none", x |-> 0, y |-> 0]

SmootherOff == SmootherState(0, 0, 0, 0, 0)

SmootherInit ==
    /\ \E h \in SmHalfLives, d \in SmDeadzones, m \in SmMaxSteps :
           smoother = SmootherState(h, d, m, 0, 0)
    /\ sm_out = SmNoCall
    /\ sm_calls = 0

SmApply ==
    /\ sm_calls < MaxCalls
    /\ \E dx \in SmDx, dy \in SmDy, dt_ms \in SmDt :
        LET r == SmootherApply(smoother, dx, dy, dt_ms)
        IN  /\ smoother' = r.state
            /\ sm_out' = [op |-> "apply", x |-> r.out[1], y |-> r.out[2]]
    /\ sm_calls' = sm_calls + 1
    /\ UNCHANGED <<fusionVars, voteVars, imuVars, sessionVars, sinkVars, configVars, visionVars>>

SmReset ==
    /\ sm_calls < MaxCalls
    /\ smoother' = SmootherReset(smoother)
    /\ sm_out' = [op |-> "reset", x |-> 0, y |-> 0]
    /\ sm_calls' = sm_calls + 1
    /\ UNCHANGED <<fusionVars, voteVars, imuVars, sessionVars, sinkVars, configVars, visionVars>>

SmUpdateConfig ==
    /\ sm_calls < MaxCalls
    /\ \E h \in SmHalfLives, d \in SmDeadzones, m \in SmMaxSteps :
           smoother' = SmootherUpdateConfig(smoother, h, d, m)
    /\ sm_out' = [op |-> "update_config", x |-> 0, y |-> 0]
    /\ sm_calls' = sm_calls + 1
    /\ UNCHANGED <<fusionVars, voteVars, imuVars, sessionVars, sinkVars, configVars, visionVars>>

----------------------------------------------------------------------------
(* Calls of one IMU tracker on drawn samples *)

MaxSamples == 3

Trackers == {"accel", "gyro", "orientation"}

\* Client timestamps in ms; a client's clock may be before its epoch.
ImuTs == {-20, -10, 0, 210, 220}

Sample(ts, ax, ay, gy, gz, beta, gamma) ==
    [ts |-> ts, ax |-> ax, ay |-> ay, gy |-> gy, gz |-> gz,
     beta |-> beta, gamma |-> gamma]

\* Samples for a tracker reading the fields (x, y): well-formed ones, and
\* ones with the timestamp or one component missing or not a number.
XYSamples(xs, ys) ==
    {<<Num(t), Num(x), Num(y)>> : t \in ImuTs, x \in xs, y \in ys}
    \cup {<<b, Num(300), Num(0)>> : b \in {Missing, Bad}}
    \cup {<<Num(10), b, Num(0)>> : b \in {Missing, Bad}}
    \cup {<<Num(10), Num(300), b>> : b \in {Missing, Bad}}

AccelSamples ==
    {Sample(s[1], s[2], s[3], Missing, Missing, Missing, Missing) :
        s \in XYSamples({-300, 0, 300}, {0, 15, 100})}
GyroSamples ==
    {Sample(s[1], Missing, Missing, s[3], s[2], Missing, Missing) :
        s \in XYSamples({-300, 0, 300}, {0, 100})}
OrientationSamples ==
    {Sample(s[1], Missing, Missing, Missing, Missing, s[3], s[2]) :
        s \in XYSamples({-10, 0, 10}, {-179, 1, 179})}

\* The tracker's state, whichever it is.
TrackerState(trk) ==
    IF trk = "accel" THEN accel
    ELSE IF trk = "gyro" THEN gyro
    ELSE orientation

NoSample == Sample(Missing, Missing, Missing, Missing, Missing, Missing, Missing)

Logged(log, op, sample, pre, out) ==
    LET e == [op |-> op, sample |-> sample, pre |-> pre, out |-> out]
    IN  IF Len(log) < 2 THEN Append(log, e) ELSE <<log[2], e>>

ImuInit ==
    /\ accel = AccelInit
    /\ gyro = GyroInit
    /\ orientation = OrientationInit
    /\ imu_trk \in Trackers
    /\ imu_n = 0
    /\ imu_log = <<>>

AccelSample ==
    /\ imu_trk = "accel"
    /\ imu_n < MaxSamples
    /\ \E s \in AccelSamples :
        LET r == AccelProcess(accel, s)
        IN  /\ accel' = r.state
            /\ imu_log' = Logged(imu_log, "sample", s, accel, r.out)
    /\ imu_n' = imu_n + 1
    /\ UNCHANGED <<gyro, orientation, imu_trk>>
    /\ UNCHANGED <<fusionVars, voteVars, smootherVars, sessionVars, sinkVars, configVars, visionVars>>

GyroSample ==
    /\ imu_trk = "gyro"
    /\ imu_n < MaxSamples
    /\ \E s \in GyroSamples :
        LET r == GyroProcess(gyro, s)
        IN  /\ gyro' = r.state
            /\ imu_log' = Logged(imu_log, "sample", s, gyro, r.out)
    /\ imu_n' = imu_n + 1
    /\ UNCHANGED <<accel, orientation, imu_trk>>
    /\ UNCHANGED <<fusionVars, voteVars, smootherVars, sessionVars, sinkVars, configVars, visionVars>>

OrientationSample ==
    /\ imu_trk = "orientation"
    /\ imu_n < MaxSamples
    /\ \E s \in OrientationSamples :
        LET r == OrientationProcess(orientation, s)
        IN  /\ orientation' = r.state
            /\ imu_log' = Logged(imu_log, "sample", s, orientation, r.out)
    /\ imu_n' = imu_n + 1
    /\ UNCHANGED <<accel, gyro, imu_trk>>
    /\ UNCHANGED <<fusionVars, voteVars, smootherVars, sessionVars, sinkVars, configVars, visionVars>>

\* reset() of the tracker
ImuReset ==
    /\ imu_n < MaxSamples
    /\ imu_n > 0
    /\ accel' = IF imu_trk = "accel" THEN AccelInit ELSE accel
    /\ gyro' = IF imu_trk = "gyro" THEN GyroInit ELSE gyro
    /\ orientation' = IF imu_trk = "orientation" THEN OrientationInit
                      ELSE orientation
    /\ imu_log' = Logged(imu_log, "reset", NoSample, TrackerState(imu_trk),
                         Invalid(0))
    /\ imu_n' = imu_n + 1
    /\ UNCHANGED imu_trk
    /\ UNCHANGED <<fusionVars, voteVars, smootherVars, sessionVars, sinkVars, configVars, visionVars>>

----------------------------------------------------------------------------
(* vision.py: VisionTracker *)

\* The tracker keeps the previous grey image (here: which frame it came from)
\* and the previous feature points (here: whether there are at least
\* min_points of them).  What OpenCV finds in an image is an input: detect
\* and redetect are what goodFeaturesToTrack returns for the first and the
\* second call, flow is how far the optical-flow pipeline got, (dx, dy) is
\* the estimated translation in hundredths of an image pixel.
VisionInit == [prev_gray |-> None, prev_pts |-> None]

VisionDelta(dx, dy, valid) == [dx |-> dx, dy |-> dy, valid |-> valid]

Detected(found) == IF found = "none" THEN None ELSE Some(found)

VisionOutcome(detect, redetect, flow, dx, dy) ==
    [detect |-> detect, redetect |-> redetect, flow |-> flow,
     dx |-> dx, dy |-> dy]

\* How far the optical-flow pipeline of a frame gets (lines 78-155):
\*   "null"       calcOpticalFlowPyrLK returns None (87)
\*   "no_track"   no point has status 1 and err <= max_err (95)
\*   "back_null"  the backward flow returns None (112)
\*   "no_fb"      no point passes the forward-backward test (121)
\*   "too_few"    fewer than min_points survive (129)
\*   "no_inliers" estimateAffinePartial2D returns None or fewer than
\*                min_points inliers: dx, dy are the median of the
\*                survivors' displacements (144-155)
\*   "ok"         dx, dy are the affine translation (148-149)
\*   "raises"     a call of the flow pipeline raises cv2.error
FlowResets == {"null", "no_track", "back_null", "no_fb", "too_few"}
FlowMeasures == {"ok", "no_inliers"}

\* VisionTracker.process_bgr.  raised: the call left by an exception, which
\* returns nothing.
process_bgr(v, frame, o) ==
    IF v.prev_gray = None
    THEN [state |-> [prev_gray |-> Some(frame), prev_pts |-> Detected(o.detect)],
          out |-> VisionDelta(0, 0, FALSE), raised |-> FALSE]
    ELSE
        LET pts == IF v.prev_pts = None \/ v.prev_pts[1] = "few"
                   THEN Detected(o.detect)
                   ELSE v.prev_pts
        IN  IF pts = None
            THEN [state |-> [prev_gray |-> Some(frame),
                             prev_pts |-> Detected(o.redetect)],
                  out |-> VisionDelta(0, 0, FALSE), raised |-> FALSE]
            ELSE IF o.flow = "raises"
            THEN [state |-> [v EXCEPT !.prev_pts = pts],
                  out |-> VisionDelta(0, 0, FALSE), raised |-> TRUE]
            ELSE IF o.flow \notin FlowMeasures
            THEN [state |-> [prev_gray |-> Some(frame), prev_pts |-> None],
                  out |-> VisionDelta(0, 0, FALSE), raised |-> FALSE]
            ELSE [state |-> [prev_gray |-> Some(frame),
                             prev_pts |-> Some("many")],
                  out |-> VisionDelta(-o.dx, -o.dy, TRUE), raised |-> FALSE]

----------------------------------------------------------------------------
(* web.py: the session's helpers *)

DEFAULT_ENABLED ==
    [camera |-> FALSE, accel |-> TRUE, gyro |-> FALSE, orientation |-> FALSE]

\* MOVE_SCALES, pixels per unit of each source
MOVE_SCALES == [camera |-> 4, accel |-> 220, gyro |-> 18, orientation |-> 4]

DEFAULT_TICK_HZ == 240

\* How many hundredths of a pixel one model unit of a source's delta is at
\* scale 1, as <<numerator, denominator>>: the camera's unit is a hundredth
\* of an image pixel, the accelerometer's 1e-5, the gyroscope's 1e-4, the
\* orientation tracker's a tenth.
UnitCentiPx ==
    [camera |-> <<1, 1>>, accel |-> <<1, 1000>>, gyro |-> <<1, 100>>,
     orientation |-> <<10, 1>>]

\* _scale_move
scale_move(source, delta) ==
    LET u == UnitCentiPx[source]
    IN  <<TruncDiv(delta.dx * MOVE_SCALES[source] * u[1], u[2]),
          TruncDiv(delta.dy * MOVE_SCALES[source] * u[1], u[2])>>

\* _rotate, for the right angles
rotate(delta, screen_angle_deg) ==
    LET angle == screen_angle_deg % 360
    IN  IF angle = 0 \/ ~delta.valid THEN delta
        ELSE IF angle = 90 THEN [delta EXCEPT !.dx = -delta.dy, !.dy = delta.dx]
        ELSE IF angle = 180 THEN [delta EXCEPT !.dx = -delta.dx, !.dy = -delta.dy]
        ELSE [delta EXCEPT !.dx = delta.dy, !.dy = -delta.dx]

\* session.pending.get(source): None, or the pair stored
PendingGet(pending, source) ==
    IF source \in Keys(pending)
    THEN Some(<<Entry(pending, source).dx, Entry(pending, source).dy>>)
    ELSE None

\* session.pending[source] = v
PendingSet(pending, source, v) ==
    LET e == [src |-> source, dx |-> v[1], dy |-> v[2]]
    IN  IF source \in Keys(pending)
        THEN [i \in 1..Len(pending) |->
                IF pending[i].src = source THEN e ELSE pending[i]]
        ELSE Append(pending, e)

\* _accumulate, lines 224-227: the pair stored, given the pair read
AccumulatedBug(prev, dx, dy) == <<dx, dy>>
Accumulated(prev, dx, dy) ==
    IF prev = None THEN <<dx, dy>> ELSE <<prev[1][1] + dx, prev[1][2] + dy>>

\* session.last[source] = delta
LastSet(last, source, delta) ==
    [s \in DOMAIN last \cup {source} |-> IF s = source THEN delta ELSE last[s]]

\* 1.0 / max(1.0, tick_hz), in ms
Interval(tick_hz) == 1000 \div (IF tick_hz < 1 THEN 1 ELSE tick_hz)

\* max(1, min(240, fps))
ClampFps(fps) == IF fps < 1 THEN 1 ELSE IF fps > 240 THEN 240 ELSE fps

\* What a tracker's result becomes in the imu.sample handler: rotated, for
\* the accelerometer mirrored in x, scaled, stamped with the receive time.
ImuResult(source, out, screen_angle_deg, rx_ms) ==
    LET r == rotate(out, screen_angle_deg)
        d == IF source = "accel" THEN [r EXCEPT !.dx = -r.dx] ELSE r
        p == scale_move(source, d)
    IN  IF d.valid THEN MotionDelta(p[1], p[2], rx_ms, TRUE)
        ELSE MotionDelta(0, 0, rx_ms, FALSE)

\* The fields of a config message: each is None when the message lacks it.
\* enabled and fusion are functions on the keys the message carries.
ConfigMsg(sensitivity, cameraFps, screenAngle, smoothingHalfLifeMs, deadzonePx, enabled, fusion) ==
    [t |-> "config", sensitivity |-> sensitivity, cameraFps |-> cameraFps,
     screenAngle |-> screenAngle, smoothingHalfLifeMs |-> smoothingHalfLifeMs,
     deadzonePx |-> deadzonePx, enabled |-> enabled, fusion |-> fusion]

OrElse(opt, default) == IF opt = None THEN default ELSE opt[1]

\* config, lines 306-364: the session fields after the message's fields
\* were applied.  The fusion keys are written as the fields they set.
ConfigAppliedBug(s, m) == [s EXCEPT !.sensitivity = @ * OrElse(m.sensitivity, 1)]
ConfigApplied(s, m) ==
    LET en == IF m.enabled = None THEN s.enabled
              ELSE [k \in DOMAIN s.enabled |->
                        IF k \in DOMAIN m.enabled[1] THEN m.enabled[1][k]
                        ELSE s.enabled[k]]
        fps == ClampFps(OrElse(m.cameraFps, s.camera_fps))
        fu == IF m.fusion = None THEN s.fusion
              ELSE [k \in DOMAIN s.fusion |->
                        IF k \in DOMAIN m.fusion[1] THEN m.fusion[1][k]
                        ELSE s.fusion[k]]
    IN  [s EXCEPT !.sensitivity = OrElse(m.sensitivity, 1),
                  !.camera_fps = fps,
                  !.screen_angle_deg = OrElse(m.screenAngle, 0) % 360,
                  !.enabled = en,
                  !.tick_hz = IF en["camera"] THEN fps ELSE s.tick_hz,
                  !.fusion = fu]

Max0(x) == IF x < 0 THEN 0 ELSE x

\* config, lines 366-373: the smoother after update_config and reset
ConfigSmootherBug(sm, m) ==
    SmootherReset(SmootherUpdateConfig(
        sm,
        Max0(OrElse(m.smoothingHalfLifeMs, DEFAULT_SMOOTHING_HALF_LIFE_MS)),
        Max0(OrElse(m.deadzonePx, DEFAULT_DEADZONE_PX)),
        0))
ConfigSmoother(sm, m) ==
    SmootherReset(SmootherUpdateConfig(
        sm,
        Max0(OrElse(m.smoothingHalfLifeMs, DEFAULT_SMOOTHING_HALF_LIFE_MS)),
        Max0(OrElse(m.deadzonePx, DEFAULT_DEADZONE_PX)),
        MAX_STEP_PX))

\* config, lines 374 and 379
ConfigResetsBug(s) ==
    [s EXCEPT !.pending_frame_meta = None, !.last = <<>>, !.last_out = <<0, 0>>]
ConfigResets(s) == [s EXCEPT !.pending_frame_meta = None, !.last = <<>>]

\* config, lines 305-383, run with nothing in between: the session fields
\* and the smoother it leaves
ConfigHandled(st, m) ==
    [ses |-> [ConfigResets(ConfigApplied(st.ses, m)) EXCEPT !.pending = <<>>],
     smoother |-> ConfigSmoother(st.smoother, m)]

----------------------------------------------------------------------------
(* web.py: one session, its I/O task and its motion-loop thread *)

MaxMsgs == 4
MaxTicks == 2

\* How long the motion loop sleeps or is held up between two readings of
\* the clock, in ms.
TickDts == {20, 300}

Clients == {"touch", "imu", "camera", "faulty"}

NoMsg == [t |-> "none"]
\* move.delta; num tells whether float() accepts the message's dx and dy
MoveMsg(dx, dy) == [t |-> "move.delta", dx |-> dx, dy |-> dy, num |-> TRUE]
MoveMsgText == [t |-> "move.delta", dx |-> 0, dy |-> 0, num |-> FALSE]
\* A text json.loads rejects ("malformed"), or whose payload
\* parse_client_msg rejects: not an object, or without a string t.
RawMsg(fault) == [t |-> "raw", fault |-> fault]
\* A well-formed message whose t no branch of the handler knows.
UnknownMsg == [t |-> "unknown"]
ImuMsg(sample) == [t |-> "imu.sample", sample |-> sample]
CamFrameMsg(ts, mime_ok) ==
    [t |-> "cam.frame", meta |-> [ts |-> ts, mime_ok |-> mime_ok]]
BinaryMsg(decodes, outcome) ==
    [t |-> "binary", decodes |-> decodes, outcome |-> outcome]

CfgDefault == ConfigMsg(None, None, None, None, None, None, None)
CfgFull ==
    ConfigMsg(Some(2), Some(60), Some(90), Some(0), Some(0),
              Some([camera |-> TRUE, gyro |-> TRUE, orientation |-> TRUE]),
              Some([min_mag |-> Px(3)]))

\* Configs of a client that swipes fast: a high and a negative sensitivity,
\* no filter and no dead zone, or a negative half-life and a wide dead zone.
CfgFast == ConfigMsg(Some(3), None, None, Some(0), Some(0), None, None)
CfgBack == ConfigMsg(Some(-3), None, None, Some(-5), Some(Px(1)), None, None)

SesSamples ==
    {Sample(Num(0), Num(0), Num(0), Num(0), Num(0), Num(0), Num(0)),
     Sample(Num(10), Num(100), Num(0), Num(0), Num(300), Num(0), Num(1)),
     Sample(Num(20), Num(-100), Num(0), Num(0), Num(-300), Num(0), Num(-1))}

\* The messages a client of each kind sends.
Messages(c) ==
    IF c = "touch"
    THEN {MoveMsg(Px(5), 0), MoveMsg(-Px(5), 0), MoveMsg(0, 0),
          CfgDefault, CfgFull}
    ELSE IF c = "imu"
    THEN {ImuMsg(s) : s \in SesSamples} \cup {CfgFull}
    ELSE IF c = "camera"
    THEN {CfgFull, CamFrameMsg(Num(5), TRUE), CamFrameMsg(Num(6), FALSE),
          BinaryMsg(TRUE, VisionOutcome("many", "many", "ok", -25, 0)),
          BinaryMsg(TRUE, VisionOutcome("many", "many", "null", 0, 0))}
    ELSE IF c = "swipe"
    THEN {MoveMsg(Px(35), 0), MoveMsg(0, -Px(35)), CfgDefault, CfgFast,
          CfgBack}
    ELSE {MoveMsg(Px(5), 0), MoveMsgText, UnknownMsg,
          RawMsg("malformed"), RawMsg("not_object"), RawMsg("no_t"),
          ImuMsg(Sample(Num(0), Num(0), Num(0), Missing, Missing, Missing,
                        Missing)),
          ImuMsg(Sample(Num(10), Num(100), Num(0), Missing, Missing, Missing,
                        Missing)),
          ImuMsg(Sample(Num(20), Bad, Num(0), Missing, Missing, Missing,
                        Missing))}

\* A frame's announcement and its bytes count as one message.
Counted(m) == IF m.t = "cam.frame" THEN 0 ELSE 1

Zeros == [s \in Sources |-> <<0, 0>>]

SessionFields ==
    [sensitivity |-> 1, camera_fps |-> 15, screen_angle_deg |-> 0,
     tick_hz |-> DEFAULT_TICK_HZ, enabled |-> DEFAULT_ENABLED,
     pending_frame_meta |-> None, last |-> <<>>,
     fusion |-> FusionConfigDefault, pending |-> <<>>, pending_lock |-> "free",
     stop_event |-> FALSE, last_out |-> <<0, 0>>]

SessionSmoother ==
    SmootherState(DEFAULT_SMOOTHING_HALF_LIFE_MS, DEFAULT_DEADZONE_PX,
                  MAX_STEP_PX, 0, 0)

\* History of the frame announcements: what the handling of the last binary
\* payload took as its metadata (used), the most recent cam.frame before it
\* that no payload or config had consumed (latest), whether that one had
\* replaced an unused earlier one, and whether a camera delta was computed.
CamUse(used, latest, replaced, delta) ==
    [used |-> used, latest |-> latest, replaced |-> replaced, delta |-> delta]
NoCam == CamUse(None, None, FALSE, FALSE)

IoIdle ==
    [pc |-> "recv", n |-> 0, msg |-> NoMsg, rx_ms |-> 0, src |-> "delta",
     dx |-> 0, dy |-> 0, prev |-> None, ret |-> "recv", replies |-> <<>>,
     why |-> "open", latest |-> None, replaced |-> FALSE, cam |-> NoCam]

MlStart ==
    [pc |-> "check", ticks |-> 0, last_tick |-> 0, now |-> 0, dt |-> 0,
     wait |-> 0, deltas |-> <<>>, dx |-> 0, dy |-> 0, sx |-> 0, sy |-> 0,
     out |-> <<0, 0>>, late |-> FALSE]

MouseIdle == [moves |-> 0, last |-> <<0, 0>>, after_stop |-> 0]

GhStart ==
    [all |-> Zeros, kept |-> Zeros, writes |-> 0,
     drained |-> [map |-> <<>>, all |-> Zeros, kept |-> Zeros, writes |-> 0]]

\* ws_endpoint, lines 101-104: accepted, session made, thread started
SessionInit ==
    /\ client \in Clients
    /\ ses = SessionFields
    /\ vision = VisionInit
    /\ io = IoIdle
    /\ ml = MlStart
    /\ mouse = MouseIdle
    /\ clock = 0
    /\ gh = GhStart

\* _accumulate, lines 220-221: the call, which returns at once on (0, 0)
Call_accumulate(source, dx, dy, ret) ==
    IF dx = 0 /\ dy = 0
    THEN [io EXCEPT !.pc = ret]
    ELSE [io EXCEPT !.pc = "acc", !.src = source, !.dx = dx, !.dy = dy,
                    !.ret = ret]

\* await ws.receive(), and the dispatch on the message's kind
Recv ==
    /\ io.pc = "recv"
    /\ io.n < MaxMsgs
    /\ \E m \in Messages(client) :
        io' = [io EXCEPT !.pc = m.t, !.msg = m, !.n = @ + Counted(m),
                        !.replies = <<>>, !.cam = NoCam]
    /\ UNCHANGED <<ses, vision, ml, mouse, clock, gh, smoother, accel, gyro,
                   orientation>>
    /\ UNCHANGED harnessVars

\* threading.Lock.acquire on session.pending_lock succeeds
PendingLockFreeBug(s) == TRUE
PendingLockFree(s) == s.pending_lock = "free"

\* config, lines 306-364
CfgApply ==
    /\ io.pc = "config"
    /\ ses' = ConfigApplied(ses, io.msg)
    /\ io' = [io EXCEPT !.pc = "cfg_smoother"]
    /\ UNCHANGED <<vision, ml, mouse, clock, gh, smoother, accel, gyro,
                   orientation>>
    /\ UNCHANGED harnessVars

\* config, lines 366-373
CfgSmoother ==
    /\ io.pc = "cfg_smoother"
    /\ smoother' = ConfigSmoother(smoother, io.msg)
    /\ io' = [io EXCEPT !.pc = "cfg_reset"]
    /\ UNCHANGED <<ses, vision, ml, mouse, clock, gh, accel, gyro, orientation>>
    /\ UNCHANGED harnessVars

\* config, lines 374-379
CfgReset ==
    /\ io.pc = "cfg_reset"
    /\ ses' = ConfigResets(ses)
    /\ vision' = VisionInit
    /\ accel' = AccelInit
    /\ gyro' = GyroInit
    /\ orientation' = OrientationInit
    /\ io' = [io EXCEPT !.pc = "cfg_clear", !.latest = None,
                        !.replaced = FALSE]
    /\ UNCHANGED <<ml, mouse, clock, gh, smoother>>
    /\ UNCHANGED harnessVars

\* config, lines 380-381
CfgClear ==
    /\ io.pc = "cfg_clear"
    /\ PendingLockFree(ses)
    /\ ses' = [ses EXCEPT !.pending = <<>>]
    /\ gh' = [gh EXCEPT !.kept = Zeros, !.writes = 0]
    /\ io' = [io EXCEPT !.pc = "cfg_reply"]
    /\ UNCHANGED <<vision, ml, mouse, clock, smoother, accel, gyro, orientation>>
    /\ UNCHANGED harnessVars

\* config, line 382
CfgReply ==
    /\ io.pc = "cfg_reply"
    /\ io' = [io EXCEPT !.pc = "recv", !.replies = Append(@, "server.state")]
    /\ UNCHANGED <<ses, vision, ml, mouse, clock, gh, smoother, accel, gyro,
                   orientation>>
    /\ UNCHANGED harnessVars

\* move.delta
MoveDelta ==
    /\ io.pc = "move.delta"
    /\ io' = IF io.msg.num
             THEN Call_accumulate("delta", io.msg.dx, io.msg.dy, "recv")
             ELSE [io EXCEPT !.pc = "error"]
    /\ UNCHANGED <<ses, vision, ml, mouse, clock, gh, smoother, accel, gyro,
                   orientation>>
    /\ UNCHANGED harnessVars

\* _accumulate, lines 222-223
AccRead ==
    /\ io.pc = "acc"
    /\ PendingLockFree(ses)
    /\ ses' = [ses EXCEPT !.pending_lock = "io"]
    /\ io' = [io EXCEPT !.pc = "acc_write",
                        !.prev = PendingGet(ses.pending, io.src)]
    /\ UNCHANGED <<vision, ml, mouse, clock, gh, smoother, accel, gyro,
                   orientation>>
    /\ UNCHANGED harnessVars

\* _accumulate, lines 224-227
AccWrite ==
    /\ io.pc = "acc_write"
    /\ ses' = [ses EXCEPT
                !.pending = PendingSet(ses.pending, io.src,
                                       Accumulated(io.prev, io.dx, io.dy)),
                !.pending_lock = "free"]
    /\ gh' = [gh EXCEPT
                !.all[io.src] = <<@[1] + io.dx, @[2] + io.dy>>,
                !.kept[io.src] = <<@[1] + io.dx, @[2] + io.dy>>,
                !.writes = IF @ < 2 THEN @ + 1 ELSE @]
    /\ io' = [io EXCEPT !.pc = io.ret, !.prev = None]
    /\ UNCHANGED <<vision, ml, mouse, clock, smoother, accel, gyro, orientation>>
    /\ UNCHANGED harnessVars

\* imu.sample, lines 409-420
ImuAccel ==
    /\ io.pc = "imu.sample"
    /\ IF ses.enabled["accel"]
       THEN LET r == AccelProcess(accel, io.msg.sample)
                d == ImuResult("accel", r.out, ses.screen_angle_deg, clock)
            IN  /\ accel' = r.state
                /\ ses' = [ses EXCEPT !.last = LastSet(@, "accel", d)]
                /\ io' = [Call_accumulate("accel", d.dx, d.dy, "imu_gyro")
                            EXCEPT !.rx_ms = clock]
       ELSE /\ io' = [io EXCEPT !.pc = "imu_gyro", !.rx_ms = clock]
            /\ UNCHANGED <<accel, ses>>
    /\ UNCHANGED <<vision, ml, mouse, clock, gh, smoother, gyro, orientation>>
    /\ UNCHANGED harnessVars

\* imu.sample, lines 421-429
ImuGyro ==
    /\ io.pc = "imu_gyro"
    /\ IF ses.enabled["gyro"]
       THEN LET r == GyroProcess(gyro, io.msg.sample)
                d == ImuResult("gyro", r.out, ses.screen_angle_deg, io.rx_ms)
            IN  /\ gyro' = r.state
                /\ ses' = [ses EXCEPT !.last = LastSet(@, "gyro", d)]
                /\ io' = Call_accumulate("gyro", d.dx, d.dy, "imu_orientation")
       ELSE /\ io' = [io EXCEPT !.pc = "imu_orientation"]
            /\ UNCHANGED <<gyro, ses>>
    /\ UNCHANGED <<vision, ml, mouse, clock, gh, smoother, accel, orientation>>
    /\ UNCHANGED harnessVars

\* imu.sample, lines 430-439
ImuOrientation ==
    /\ io.pc = "imu_orientation"
    /\ IF ses.enabled["orientation"]
       THEN LET r == OrientationProcess(orientation, io.msg.sample)
                d == ImuResult("orientation", r.out, ses.screen_angle_deg,
                               io.rx_ms)
            IN  /\ orientation' = r.state
                /\ ses' = [ses EXCEPT !.last = LastSet(@, "orientation", d)]
                /\ io' = Call_accumulate("orientation", d.dx, d.dy, "recv")
       ELSE /\ io' = [io EXCEPT !.pc = "recv"]
            /\ UNCHANGED <<orientation, ses>>
    /\ UNCHANGED <<vision, ml, mouse, clock, gh, smoother, accel, gyro>>
    /\ UNCHANGED harnessVars

\* cam.frame, line 442: session.pending_frame_meta = msg.raw
MetaStoredBug(old, new) == IF old = None THEN Some(new) ELSE old
MetaStored(old, new) == Some(new)

\* cam.frame
CamFrame ==
    /\ io.pc = "cam.frame"
    /\ ses' = [ses EXCEPT !.pending_frame_meta =
                            MetaStored(@, io.msg.meta)]
    /\ io' = [io EXCEPT !.pc = "recv", !.latest = Some(io.msg.meta),
                        !.replaced = io.latest \notin {None, Some(io.msg.meta)}]
    /\ UNCHANGED <<vision, ml, mouse, clock, gh, smoother, accel, gyro,
                   orientation>>
    /\ UNCHANGED harnessVars

\* _handle_binary_message; the frame is named by the message's number
Binary ==
    /\ io.pc = "binary"
    /\ LET meta == ses.pending_frame_meta
       IN  IF ~ses.enabled["camera"]
           THEN /\ io' = [io EXCEPT !.pc = "recv"]
                /\ UNCHANGED <<ses, vision>>
           ELSE IF meta = None \/ ~meta[1].mime_ok \/ ~io.msg.decodes
           THEN /\ ses' = [ses EXCEPT !.pending_frame_meta = None]
                /\ io' = [io EXCEPT !.pc = "recv", !.latest = None,
                                    !.replaced = FALSE,
                                    !.cam = CamUse(meta, io.latest,
                                                   io.replaced, FALSE)]
                /\ UNCHANGED vision
           ELSE
               LET r == process_bgr(vision, io.n, io.msg.outcome)
                   ts_ms == IF meta[1].ts.k = "num" THEN meta[1].ts.v ELSE 0
                   cam == rotate(MotionDelta(r.out.dx, r.out.dy, ts_ms,
                                             r.out.valid),
                                 ses.screen_angle_deg)
                   p == scale_move("camera", cam)
                   d == IF cam.valid THEN MotionDelta(p[1], p[2], clock, TRUE)
                        ELSE MotionDelta(0, 0, clock, FALSE)
               IN  /\ vision' = r.state
                   /\ ses' = [ses EXCEPT !.pending_frame_meta = None,
                                         !.last = IF r.raised THEN @
                                                  ELSE LastSet(@, "camera", d)]
                   /\ io' = [(IF r.raised THEN [io EXCEPT !.pc = "error"]
                              ELSE IF cam.valid
                              THEN Call_accumulate("camera", d.dx, d.dy, "recv")
                              ELSE [io EXCEPT !.pc = "recv"])
                            EXCEPT !.latest = None, !.replaced = FALSE,
                                   !.cam = CamUse(meta, io.latest,
                                                  io.replaced, TRUE)]
    /\ UNCHANGED <<ml, mouse, clock, gh, smoother, accel, gyro, orientation>>
    /\ UNCHANGED harnessVars

\* _handle_text_message, lines 298-299: json.loads or parse_client_msg raises
Parse ==
    /\ io.pc = "raw"
    /\ io' = [io EXCEPT !.pc = "error"]
    /\ UNCHANGED <<ses, vision, ml, mouse, clock, gh, smoother, accel, gyro,
                   orientation>>
    /\ UNCHANGED harnessVars

\* _handle_text_message, line 445: no branch took the message
UnknownOutcomeBug(i) == [i EXCEPT !.pc = "error"]
UnknownOutcome(i) == [i EXCEPT !.pc = "recv", !.replies = Append(@, "error")]

Unknown ==
    /\ io.pc = "unknown"
    /\ io' = UnknownOutcome(io)
    /\ UNCHANGED <<ses, vision, ml, mouse, clock, gh, smoother, accel, gyro,
                   orientation>>
    /\ UNCHANGED harnessVars

\* ws_endpoint, lines 114-119: a handler raised; the error reply is sent
ErrorReply ==
    /\ io.pc = "error"
    /\ io' = [io EXCEPT !.pc = "finally", !.replies = Append(@, "error"),
                        !.why = "error"]
    /\ UNCHANGED <<ses, vision, ml, mouse, clock, gh, smoother, accel, gyro,
                   orientation>>
    /\ UNCHANGED harnessVars

\* ws_endpoint, lines 107, 112-113: the client is gone
Disconnect ==
    /\ io.pc = "recv"
    /\ io' = [io EXCEPT !.pc = "finally", !.why = "disconnect"]
    /\ UNCHANGED <<ses, vision, ml, mouse, clock, gh, smoother, accel, gyro,
                   orientation>>
    /\ UNCHANGED harnessVars

\* ws_endpoint, lines 120-122, and _stop_motion_thread, line 240
Finally ==
    /\ io.pc = "finally"
    /\ ses' = [ses EXCEPT !.stop_event = TRUE]
    /\ io' = [io EXCEPT !.pc = "join"]
    /\ UNCHANGED <<vision, ml, mouse, clock, gh, smoother, accel, gyro,
                   orientation>>
    /\ UNCHANGED harnessVars

\* _stop_motion_thread, lines 241-243: join returns, the thread having
\* exited or the timeout having passed
Join ==
    /\ io.pc = "join"
    /\ io' = [io EXCEPT !.pc = "closed"]
    /\ UNCHANGED <<ses, vision, ml, mouse, clock, gh, smoother, accel, gyro,
                   orientation>>
    /\ UNCHANGED harnessVars

\* _motion_loop, line 252: while not session.stop_event.is_set()
LoopRunsBug(s) == TRUE
LoopRuns(s) == ~s.stop_event

\* _motion_loop, lines 252-259: the loop test and the interval check
MlCheck ==
    /\ ml.pc = "check"
    /\ LET interval == Interval(ses.tick_hz)
           dt == clock - ml.last_tick
       IN  IF ~LoopRuns(ses)
           THEN ml' = [ml EXCEPT !.pc = "exit"]
           ELSE IF dt < interval
           THEN ml' = [ml EXCEPT !.pc = "wait", !.wait = interval - dt]
           ELSE /\ ml.ticks < MaxTicks
                /\ ml' = [ml EXCEPT !.pc = "swap", !.now = clock, !.dt = dt,
                                    !.last_tick = clock, !.wait = 0,
                                    !.late = ses.stop_event]
    /\ UNCHANGED <<ses, vision, io, mouse, clock, gh, smoother, accel, gyro,
                   orientation>>
    /\ UNCHANGED harnessVars

\* _motion_loop, line 257: stop_event.wait(interval - dt) returns at once
\* when the event is set, and times out otherwise
MlWait ==
    /\ ml.pc = "wait"
    /\ IF ses.stop_event
       THEN UNCHANGED clock
       ELSE /\ ml.ticks < MaxTicks
            /\ \E d \in TickDts :
                /\ d >= ml.wait
                /\ clock' = clock + d
    /\ ml' = [ml EXCEPT !.pc = "check", !.wait = 0]
    /\ UNCHANGED <<ses, vision, io, mouse, gh, smoother, accel, gyro,
                   orientation>>
    /\ UNCHANGED harnessVars

\* _motion_loop, lines 261-263
MlSwap ==
    /\ ml.pc = "swap"
    /\ PendingLockFree(ses)
    /\ ml' = [ml EXCEPT !.pc = "fuse", !.deltas = ses.pending]
    /\ ses' = [ses EXCEPT !.pending = <<>>]
    /\ gh' = [all |-> Zeros, kept |-> Zeros, writes |-> 0,
              drained |-> [map |-> ses.pending, all |-> gh.all,
                           kept |-> gh.kept, writes |-> gh.writes]]
    /\ UNCHANGED <<vision, io, mouse, clock, smoother, accel, gyro, orientation>>
    /\ UNCHANGED harnessVars

\* _motion_loop, lines 265-274
MlFuse ==
    /\ ml.pc = "fuse"
    /\ LET raw == compute_raw_delta(ml.deltas, ses.enabled, ses.last,
                                    ses.last_out, ml.now, ses.fusion)
       IN  ml' = [ml EXCEPT !.pc = "filter",
                            !.dx = raw[1] * ses.sensitivity,
                            !.dy = raw[2] * ses.sensitivity]
    /\ UNCHANGED <<ses, vision, io, mouse, clock, gh, smoother, accel, gyro,
                   orientation>>
    /\ UNCHANGED harnessVars

\* _motion_loop, line 275: smoother.apply, lines 35-41
MlFilter ==
    /\ ml.pc = "filter"
    /\ LET f == SmootherFilter(smoother, ml.dx, ml.dy, ml.dt)
       IN  /\ smoother' = f.state
           /\ ml' = [ml EXCEPT !.pc = "finish", !.sx = f.sx, !.sy = f.sy]
    /\ UNCHANGED <<ses, vision, io, mouse, clock, gh, accel, gyro, orientation>>
    /\ UNCHANGED harnessVars

\* _motion_loop, line 275: smoother.apply, lines 43-55
MlFinish ==
    /\ ml.pc = "finish"
    /\ LET f == SmootherFinish(smoother, ml.sx, ml.sy)
       IN  /\ smoother' = f.state
           /\ ml' = [ml EXCEPT !.pc = "dispatch", !.out = f.out]
    /\ UNCHANGED <<ses, vision, io, mouse, clock, gh, accel, gyro, orientation>>
    /\ UNCHANGED harnessVars

\* _motion_loop, line 277: if dx != 0.0 or dy != 0.0
EmitsBug(out) == TRUE
Emits(out) == out[1] # 0 \/ out[2] # 0

\* _motion_loop, lines 277-280
MlDispatch ==
    /\ ml.pc = "dispatch"
    /\ IF Emits(ml.out)
       THEN /\ ses' = [ses EXCEPT !.last_out = ml.out]
            /\ mouse' = [moves |-> 1, last |-> ml.out,
                         after_stop |->
                            IF ses.stop_event /\ mouse.after_stop < 2
                            THEN mouse.after_stop + 1
                            ELSE mouse.after_stop]
       ELSE UNCHANGED <<ses, mouse>>
    /\ ml' = [ml EXCEPT !.pc = "check", !.ticks = @ + 1]
    /\ UNCHANGED <<vision, io, clock, gh, smoother, accel, gyro, orientation>>
    /\ UNCHANGED harnessVars

IoStep ==
    \/ Recv \/ Parse \/ Unknown \/ ErrorReply \/ Disconnect \/ Finally \/ Join
    \/ CfgApply \/ CfgSmoother \/ CfgReset \/ CfgClear \/ CfgReply
    \/ MoveDelta \/ AccRead \/ AccWrite
    \/ ImuAccel \/ ImuGyro \/ ImuOrientation
    \/ CamFrame \/ Binary

MlStep ==
    \/ MlCheck \/ MlWait \/ MlSwap \/ MlFuse \/ MlFilter \/ MlFinish
    \/ MlDispatch

----------------------------------------------------------------------------
(* mouse.py: the one MouseController of the app, called from several threads *)

MaxSinkCalls == 4

\* The threads that call the controller: each session's I/O task (click,
\* scroll) and each session's motion-loop thread (move_relative).  The I/O
\* tasks are taken as free-running threads, which allows every schedule an
\* event loop allows.
SinkCallers == {"io1", "ml1", "io2", "ml2"}

SinkMove(dx, dy) == [f |-> "move_relative", dx |-> dx, dy |-> dy]
SinkClick(button, state) == [f |-> "click", button |-> button, state |-> state]
SinkScroll(delta) == [f |-> "scroll", delta |-> delta]
SinkNoOp == [f |-> "none"]

\* What a caller may ask for: web.py 280 (motion loop), 388, 396 (I/O task).
SinkOps(c) ==
    IF c \in {"ml1", "ml2"}
    THEN {SinkMove(0, 0), SinkMove(Px(5), 0)}
    ELSE {SinkClick(b, st) : b \in {"left", "middle"}, st \in {"down", "up", "hold"}}
         \cup {SinkScroll(0), SinkScroll(3)}

\* The call returns or raises before it reaches the lock.
SinkSkips(op) ==
    IF op.f = "move_relative" THEN op.dx = 0 /\ op.dy = 0
    ELSE IF op.f = "click"
    THEN op.button \notin {"left", "right"} \/ op.state \notin {"down", "up"}
    ELSE op.delta = 0

\* threading.Lock.acquire succeeds
MouseLockFreeBug(lock) == TRUE
MouseLockFree(lock) == lock = None

SinkIdle ==
    [pc |-> [c \in SinkCallers |-> "idle"],
     op |-> [c \in SinkCallers |-> SinkNoOp],
     lock |-> None, executing |-> 0, calls |-> 0, os_calls |-> 0]

SinkInit == sink = SinkIdle

\* move_relative / click / scroll up to `with self._lock`
SinkCall(c) ==
    /\ sink.pc[c] = "idle"
    /\ sink.calls < MaxSinkCalls
    /\ \E op \in SinkOps(c) :
          sink' = [sink EXCEPT !.calls = @ + 1,
                               !.op[c] = IF SinkSkips(op) THEN SinkNoOp ELSE op,
                               !.pc[c] = IF SinkSkips(op) THEN "idle"
                                         ELSE "acquire"]
    /\ UNCHANGED <<fusionVars, voteVars, smootherVars, imuVars, sessionVars, configVars, visionVars>>

\* with self._lock: __enter__
SinkAcquire(c) ==
    /\ sink.pc[c] = "acquire"
    /\ MouseLockFree(sink.lock)
    /\ sink' = [sink EXCEPT !.lock = Some(c), !.pc[c] = "locked"]
    /\ UNCHANGED <<fusionVars, voteVars, smootherVars, imuVars, sessionVars, configVars, visionVars>>

\* the pyautogui call is entered
SinkOsEnter(c) ==
    /\ sink.pc[c] = "locked"
    /\ sink' = [sink EXCEPT !.executing = @ + 1, !.os_calls = @ + 1,
                            !.pc[c] = "os"]
    /\ UNCHANGED <<fusionVars, voteVars, smootherVars, imuVars, sessionVars, configVars, visionVars>>

\* the pyautogui call returns or raises
SinkOsLeave(c) ==
    /\ sink.pc[c] = "os"
    /\ sink' = [sink EXCEPT !.executing = @ - 1, !.pc[c] = "release"]
    /\ UNCHANGED <<fusionVars, voteVars, smootherVars, imuVars, sessionVars, configVars, visionVars>>

\* with self._lock: __exit__
SinkRelease(c) ==
    /\ sink.pc[c] = "release"
    /\ sink' = [sink EXCEPT !.lock = None, !.pc[c] = "idle",
                            !.op[c] = SinkNoOp]
    /\ UNCHANGED <<fusionVars, voteVars, smootherVars, imuVars, sessionVars, configVars, visionVars>>

SinkStep(c) ==
    \/ SinkCall(c)
    \/ SinkAcquire(c)
    \/ SinkOsEnter(c)
    \/ SinkOsLeave(c)
    \/ SinkRelease(c)

----------------------------------------------------------------------------
(* The config handler run on drawn session states, message after message *)

MaxConfigCalls == 2

CfSessions ==
    {[SessionFields EXCEPT
        !.sensitivity = f[1], !.camera_fps = f[2], !.tick_hz = f[2] * 2,
        !.screen_angle_deg = f[3], !.enabled = f[4],
        !.pending_frame_meta = f[5], !.last = f[6], !.pending = f[7],
        !.fusion = f[8]] :
     f \in {1, 3} \X {15, 30} \X {0, 270}
           \X {DEFAULT_ENABLED, [k \in EnabledKeys |-> TRUE]}
           \X {None, Some([ts |-> Num(5), mime_ok |-> TRUE])}
           \X {<<>>, LastSet(<<>>, "gyro", MotionDelta(Px(2), 0, 0, TRUE))}
           \X {<<>>, PendingSet(<<>>, "delta", <<Px(5), 0>>)}
           \X {FusionConfigDefault,
               [FusionConfigDefault EXCEPT !.min_mag = Px(2)]}}

CfSmoothers ==
    {SessionSmoother,
     SmootherState(40, 0, MAX_STEP_PX, -Px(1), Px(2))}

\* config messages: none of the fields, all of them, values that are
\* clamped or reduced, and the camera switched off
CfMsgs ==
    {CfgDefault, CfgFull,
     ConfigMsg(None, Some(500), Some(450), Some(-5), Some(-1), Some([camera |-> TRUE]), None),
     ConfigMsg(Some(3), Some(0), None, Some(40), None, Some([camera |-> FALSE, accel |-> FALSE]), Some([max_angle_deg |-> 20]))}

\* how many messages were handled, the last one, and the one before it with
\* the state it had left
CfStart == [n |-> 0, m |-> NoMsg, prev |-> None]

ConfigInit ==
    /\ ses \in CfSessions
    /\ smoother \in CfSmoothers
    /\ cf = CfStart

\* _handle_text_message, config branch
ConfigCall ==
    /\ cf.n < MaxConfigCalls
    /\ \E m \in CfMsgs :
        LET h == ConfigHandled([ses |-> ses, smoother |-> smoother], m)
        IN  /\ ses' = h.ses
            /\ smoother' = h.smoother
            /\ cf' = [n |-> cf.n + 1, m |-> m,
                      prev |-> IF cf.n = 0 THEN None
                               ELSE Some([m |-> cf.m, ses |-> ses,
                                          smoother |-> smoother])]
    /\ UNCHANGED <<sm_out, sm_calls, client, vision, io, ml, mouse, clock, gh>>
    /\ UNCHANGED <<fusionVars, voteVars, imuVars, sinkVars, visionVars>>

----------------------------------------------------------------------------
(* Calls of a VisionTracker on drawn frames *)

MaxFrames == 3

\* What OpenCV makes of a frame: the features it detects and how far the
\* flow pipeline gets.
VzOutcomes ==
    {VisionOutcome(d, r, f, -25, 0) :
        d \in {"none", "few", "many"}, r \in {"none", "many"},
        f \in FlowResets \cup FlowMeasures \cup {"raises"}}

NoOutcome == VisionOutcome("none", "none", "null", 0, 0)

\* The last call: the frame's number, what OpenCV made of it, the tracker
\* before the call, and what the call returned.
VzCall(op, frame, o, pre, out, raised) ==
    [op |-> op, frame |-> frame, o |-> o, pre |-> pre, out |-> out,
     raised |-> raised]

VzOff ==
    [n |-> 0, state |-> VisionInit,
     call |-> VzCall("off", 0, NoOutcome, VisionInit,
                     VisionDelta(0, 0, FALSE), FALSE)]

VisionTrackerInit ==
    vz = [VzOff EXCEPT !.call.op = "new"]

VisionFrame ==
    /\ vz.call.op # "off"
    /\ vz.n < MaxFrames
    /\ \E o \in VzOutcomes :
        LET r == process_bgr(vz.state, vz.n + 1, o)
        IN  vz' = [n |-> vz.n + 1, state |-> r.state,
                   call |-> VzCall("frame", vz.n + 1, o, vz.state, r.out,
                                   r.raised)]
    /\ UNCHANGED <<fusionVars, voteVars, smootherVars, imuVars, sessionVars, sinkVars, configVars>>

\* reset() of the tracker
VisionReset ==
    /\ vz.call.op # "off"
    /\ vz.n > 0 /\ vz.n < MaxFrames
    /\ vz' = [n |-> vz.n + 1, state |-> VisionInit,
              call |-> VzCall("reset", 0, NoOutcome, vz.state,
                              VisionDelta(0, 0, FALSE), FALSE)]
    /\ UNCHANGED <<fusionVars, voteVars, smootherVars, imuVars, sessionVars, sinkVars, configVars>>

----------------------------------------------------------------------------
(* Specifications *)

FusionOff == fz = FzOff
VoteOff == vt = VtOff
SmOff == smoother = SmootherOff /\ sm_out = SmNoCall /\ sm_calls = 0
ImuOff ==
    /\ accel = AccelInit /\ gyro = GyroInit /\ orientation = OrientationInit
    /\ imu_trk = "accel" /\ imu_n = 0 /\ imu_log = <<>>
SinkOff == sink = SinkIdle
ConfigOff == cf = CfStart
VisionOff == vz = VzOff
SessionOff ==
    /\ client = "none" /\ ses = SessionFields /\ vision = VisionInit
    /\ io = IoIdle /\ ml = MlStart /\ mouse = MouseIdle /\ clock = 0
    /\ gh = GhStart

\* compute_raw_delta alone
InitFusion == FusionInit /\ VoteOff /\ SmOff /\ ImuOff /\ SessionOff /\ SinkOff
    /\ ConfigOff /\ VisionOff
NextFusion == FusionCall
SpecFusion == InitFusion /\ [][NextFusion]_vars

\* majority_validate_direction alone
InitVote == VoteInit /\ FusionOff /\ SmOff /\ ImuOff /\ SessionOff /\ SinkOff
    /\ ConfigOff /\ VisionOff
NextVote == VoteCall
SpecVote == InitVote /\ [][NextVote]_vars

\* a MotionSmoother alone
InitSmoother == SmootherInit /\ FusionOff /\ VoteOff /\ ImuOff /\ SessionOff /\ SinkOff
    /\ ConfigOff /\ VisionOff
NextSmoother == SmApply \/ SmReset \/ SmUpdateConfig
SpecSmoother == InitSmoother /\ [][NextSmoother]_vars

\* one IMU tracker alone
InitImu == ImuInit /\ FusionOff /\ VoteOff /\ SmOff /\ SessionOff /\ SinkOff
    /\ ConfigOff /\ VisionOff
NextImu == AccelSample \/ GyroSample \/ OrientationSample \/ ImuReset
SpecImu == InitImu /\ [][NextImu]_vars

\* one connected client: the I/O task and the motion-loop thread
Init ==
    /\ SessionInit
    /\ smoother = SessionSmoother /\ sm_out = SmNoCall /\ sm_calls = 0
    /\ ImuOff /\ FusionOff /\ VoteOff /\ SinkOff /\ ConfigOff /\ VisionOff
Next == IoStep \/ MlStep
Spec == Init /\ [][Next]_vars

\* the same, with the motion-loop thread scheduled: the operating system
\* runs a ready thread, and stop_event.wait has a timeout
InitLive == Init /\ client \in {"camera", "faulty"}
SpecLive == InitLive /\ [][Next]_vars /\ WF_vars(MlStep)

\* one session of a client that swipes fast and reconfigures; the handlers
\* of the messages it never sends are left out
InitStep ==
    /\ client = "swipe"
    /\ ses = SessionFields /\ vision = VisionInit /\ io = IoIdle /\ ml = MlStart
    /\ mouse = MouseIdle /\ clock = 0 /\ gh = GhStart
    /\ smoother = SessionSmoother /\ sm_out = SmNoCall /\ sm_calls = 0
    /\ ImuOff /\ FusionOff /\ VoteOff /\ SinkOff /\ ConfigOff /\ VisionOff
NextStep ==
    \/ Recv \/ Disconnect \/ Finally \/ Join
    \/ CfgApply \/ CfgSmoother \/ CfgReset \/ CfgClear \/ CfgReply
    \/ MoveDelta \/ AccRead \/ AccWrite
    \/ MlStep
SpecStep == InitStep /\ [][NextStep]_vars

\* the config handler alone
InitConfig ==
    /\ ConfigInit
    /\ sm_out = SmNoCall /\ sm_calls = 0
    /\ client = "none" /\ vision = VisionInit /\ io = IoIdle /\ ml = MlStart
    /\ mouse = MouseIdle /\ clock = 0 /\ gh = GhStart
    /\ FusionOff /\ VoteOff /\ ImuOff /\ SinkOff /\ VisionOff
NextConfig == ConfigCall
SpecConfig == InitConfig /\ [][NextConfig]_vars

\* the MouseController called by the threads of two sessions
InitSink ==
    /\ SinkInit /\ FusionOff /\ VoteOff /\ SmOff /\ ImuOff /\ SessionOff
    /\ ConfigOff /\ VisionOff
NextSink == \E c \in SinkCallers : SinkStep(c)
SpecSink == InitSink /\ [][NextSink]_vars

\* a VisionTracker alone
InitVision ==
    /\ VisionTrackerInit /\ FusionOff /\ VoteOff /\ SmOff /\ ImuOff /\ SessionOff
    /\ SinkOff /\ ConfigOff
NextVision == VisionFrame \/ VisionReset
SpecVision == InitVision /\ [][NextVision]_vars

----------------------------------------------------------------------------
(* Properties of compute_raw_delta (SpecFusion) *)

FzDone == fz.pc = "done"
FzHas(src) == src \in Keys(fz.pending)
FzSum(src) == <<Entry(fz.pending, src).dx, Entry(fz.pending, src).dy>>
FzNonZero(src) == FzHas(src) /\ FzSum(src) # <<0, 0>>

\* The sources with a non-zero sum, and the primary when it is an IMU
\* source: camera and delta have no non-zero sum, and the IMU source is
\* the first of accel, orientation, gyro that has one.
FzLive == {src \in Keys(fz.pending) : FzSum(src) # <<0, 0>>}
FzImuPrimary(src) ==
    /\ src \in IMU_SOURCES
    /\ src \in FzLive
    /\ "camera" \notin FzLive /\ "delta" \notin FzLive
    /\ src = "orientation" => "accel" \notin FzLive
    /\ src = "gyro" => "accel" \notin FzLive /\ "orientation" \notin FzLive

FzCamOn == "camera" \in DOMAIN fz.enabled /\ fz.enabled["camera"]
FzCam == fz.last_motion["camera"]
\* last[camera] is there, valid, and 0 <= now_ms - ts_ms <= camera_max_age_ms
FzCamInTime ==
    /\ "camera" \in DOMAIN fz.last_motion
    /\ FzCam.valid
    /\ fz.now_ms - FzCam.ts_ms >= 0
    /\ fz.now_ms - FzCam.ts_ms <= fz.config.camera_max_age_ms
FzCamMagSq == FzCam.dx * FzCam.dx + FzCam.dy * FzCam.dy
FzMagSq(src) == FzSum(src)[1] * FzSum(src)[1] + FzSum(src)[2] * FzSum(src)[2]
FzSqOf(t) == t * t

\* C2, as stated: whenever camera is a key of the pending map and camera
\* is enabled, compute_raw_delta returns the camera's accumulated (dx, dy).
C2_AsStated ==
    (FzDone /\ FzHas("camera") /\ FzCamOn) => fz.out = FzSum("camera")

\* C2, amended: whenever camera is a key of the pending map with a non-zero
\* accumulated sum and camera is enabled, compute_raw_delta returns exactly
\* that sum, whatever the other pending sources, last, last_out and the
\* fusion config are.
C2_CameraAuthority ==
    (FzDone /\ FzNonZero("camera") /\ FzCamOn) => fz.out = FzSum("camera")

C2_Witness ==
    /\ FzDone /\ FzNonZero("camera") /\ FzCamOn
    /\ Len(fz.pending) = 2 /\ fz.pending[1].src = "accel" /\ FzNonZero("accel")
    /\ fz.enabled["accel"]
    /\ FzSum("accel") # FzSum("camera")
    /\ fz.out = FzSum("camera")

\* C7: for an enabled IMU primary, with camera enabled, the camera gate on
\* and last[camera] fresh and still, compute_raw_delta returns (0,0) when
\* |primary| <= imu_min_px_when_camera_still, and also when last_out is
\* non-zero, primary . last_out < 0 and
\* |primary| <= imu_opposite_max_px_when_camera_still.
C7_StillnessVeto ==
    \A src \in IMU_SOURCES :
        ( /\ FzDone /\ FzImuPrimary(src) /\ fz.enabled[src]
          /\ FzCamOn /\ fz.config.camera_gate_enabled /\ FzCamInTime
          /\ FzCamMagSq <= FzSqOf(fz.config.camera_still_px) )
        =>
        /\ FzMagSq(src) <= FzSqOf(fz.config.imu_min_px_when_camera_still)
              => fz.out = <<0, 0>>
        /\ ( /\ fz.last_out # <<0, 0>>
             /\ FzSum(src)[1] * fz.last_out[1] + FzSum(src)[2] * fz.last_out[2] < 0
             /\ FzMagSq(src) <= FzSqOf(fz.config.imu_opposite_max_px_when_camera_still) )
              => fz.out = <<0, 0>>

C7_Witness ==
    /\ FzDone /\ FzImuPrimary("accel") /\ fz.enabled["accel"]
    /\ FzCamOn /\ fz.config.camera_gate_enabled /\ FzCamInTime
    /\ FzCamMagSq <= FzSqOf(fz.config.camera_still_px)
    /\ FzMagSq("accel") > FzSqOf(fz.config.imu_min_px_when_camera_still)
    /\ FzMagSq("accel") <= FzSqOf(fz.config.imu_opposite_max_px_when_camera_still)
    /\ fz.last_out # <<0, 0>>
    /\ FzSum("accel")[1] * fz.last_out[1] + FzSum("accel")[2] * fz.last_out[2] < 0
    /\ fz.out = <<0, 0>>

\* C8: when an enabled IMU source is the only non-zero pending source,
\* last[camera] is fresh and still with magnitude below
\* camera_validator_min_px, last_out = (0,0) and
\* |primary| > imu_min_px_when_camera_still, compute_raw_delta returns the
\* primary's sum unchanged.
C8_StillAllowsStrongImu ==
    \A src \in IMU_SOURCES :
        ( /\ FzDone /\ FzLive = {src} /\ fz.enabled[src]
          /\ FzCamInTime
          /\ FzCamMagSq <= FzSqOf(fz.config.camera_still_px)
          /\ FzCamMagSq < FzSqOf(fz.config.camera_validator_min_px)
          /\ fz.last_out = <<0, 0>>
          /\ FzMagSq(src) > FzSqOf(fz.config.imu_min_px_when_camera_still) )
        => fz.out = FzSum(src)

C8_Witness ==
    /\ FzDone /\ FzLive = {"accel"} /\ fz.enabled["accel"]
    /\ FzCamOn /\ fz.config.camera_gate_enabled /\ FzCamInTime
    /\ FzCamMagSq <= FzSqOf(fz.config.camera_still_px)
    /\ FzCamMagSq < FzSqOf(fz.config.camera_validator_min_px)
    /\ fz.last_out = <<0, 0>>
    /\ FzMagSq("accel") > FzSqOf(fz.config.imu_min_px_when_camera_still)
    /\ FzMagSq("accel") <= FzSqOf(fz.config.imu_opposite_max_px_when_camera_still)
    /\ fz.out = FzSum("accel")

\* The one validator is the fresh camera entry of last, and it points more
\* than max_angle_deg away from the primary src.
FzLoneCamDisagrees(src) ==
    /\ FzDone /\ FzLive = {src} /\ fz.enabled[src]
    /\ FzMagSq(src) >= FzSqOf(fz.config.min_mag)
    /\ ~FzHas("camera")
    /\ FzCamOn /\ fz.config.camera_gate_enabled /\ FzCamInTime
    /\ FzCamMagSq >= FzSqOf(fz.config.camera_validator_min_px)
    /\ ~AngleDiffLe(FzSum(src)[1], FzSum(src)[2], FzCam.dx, FzCam.dy,
                    fz.config.max_angle_deg)

\* C9, as stated: an enabled IMU primary (|primary| >= min_mag) whose one
\* validator is the fresh camera entry of last (camera not pending,
\* |cam| >= camera_validator_min_px), pointing more than max_angle_deg away
\* from the primary, yields (0,0), for every last_out.
C9_AsStated ==
    \A src \in IMU_SOURCES : FzLoneCamDisagrees(src) => fz.out = <<0, 0>>

\* C9, amended: the same, provided the camera entry also has
\* |cam| >= min_mag, so that the vote counts it.
C9_CameraRejects ==
    \A src \in IMU_SOURCES :
        (FzLoneCamDisagrees(src) /\ FzCamMagSq >= FzSqOf(fz.config.min_mag))
        => fz.out = <<0, 0>>

C9_Witness ==
    /\ FzLoneCamDisagrees("accel")
    /\ FzCamMagSq >= FzSqOf(fz.config.min_mag)
    /\ FzCamMagSq > FzSqOf(fz.config.camera_still_px)
    /\ fz.last_out # <<0, 0>>
    /\ fz.out = <<0, 0>>

\* The first key of pending with a non-zero sum, in insertion order.
FzFirstLive ==
    LET live == {i \in 1..Len(fz.pending) :
                    ~(fz.pending[i].dx = 0 /\ fz.pending[i].dy = 0)}
    IN  fz.pending[CHOOSE i \in live : \A j \in live : i <= j].src
FzExpectedPrimary ==
    IF "camera" \in FzLive THEN "camera"
    ELSE IF "delta" \in FzLive THEN "delta"
    ELSE IF "accel" \in FzLive THEN "accel"
    ELSE IF "orientation" \in FzLive THEN "orientation"
    ELSE IF "gyro" \in FzLive THEN "gyro"
    ELSE FzFirstLive

\* C21: compute_raw_delta considers only the sources whose sum is non-zero;
\* its primary is the first of camera, delta, accel, orientation, gyro among
\* them, or the first of them in insertion order when none of the five is
\* among them; when no source has a non-zero sum it chooses no primary and
\* returns (0, 0).
C21_PrimarySelection ==
    FzDone =>
        IF FzLive = {}
        THEN fz.primary = "none" /\ fz.out = <<0, 0>>
        ELSE fz.primary = FzExpectedPrimary

\* A zero-sum camera entry and a zero-sum key outside the priority list are
\* passed over: with pending = (camera: 0, other_b: non-zero) the primary is
\* other_b; it is arbitrated alone and returned.
C21_Witness ==
    /\ FzDone
    /\ Len(fz.pending) = 2
    /\ fz.pending[1].src = "camera" /\ FzSum("camera") = <<0, 0>>
    /\ fz.pending[2].src = "other_b"
    /\ fz.primary = "other_b"
    /\ fz.out = FzSum("other_b") /\ fz.out # <<0, 0>>

FzOn(src) == src \in DOMAIN fz.enabled /\ fz.enabled[src]
FzGated ==
    /\ FzLive # {}
    /\ \/ FzExpectedPrimary = "camera" /\ ~FzOn("camera")
       \/ FzExpectedPrimary \in IMU_SOURCES /\ ~FzOn(FzExpectedPrimary)

\* C22: when the primary is camera and camera is not enabled, or the primary
\* is accel, gyro or orientation and that source is not enabled,
\* compute_raw_delta returns (0, 0), whatever other enabled source has a
\* non-zero pending sum in the same tick.
C22_EnableGate ==
    (FzDone /\ FzGated) => fz.out = <<0, 0>>

\* A disabled camera with a non-zero sum is the primary while the enabled
\* accel has a non-zero sum in the same tick: the result is (0, 0).
C22_Witness ==
    /\ FzDone /\ FzGated
    /\ fz.primary = "camera" /\ ~FzOn("camera")
    /\ FzNonZero("accel") /\ FzOn("accel")
    /\ fz.out = <<0, 0>>

\* The validators of the IMU primary src, by name: the other keys with a
\* non-zero sum, and the entry last[camera] when it is fresh, moving by at
\* least camera_validator_min_px, and camera has no non-zero sum.
FzCamJoins ==
    /\ fz.config.camera_gate_enabled /\ FzCamOn /\ FzCamInTime
    /\ "camera" \notin FzLive
    /\ FzCamMagSq >= FzSqOf(fz.config.camera_validator_min_px)
FzVals(src) == (FzLive \ {src}) \cup (IF FzCamJoins THEN {"last[camera]"} ELSE {})
FzValVec(v) == IF v = "last[camera]" THEN <<FzCam.dx, FzCam.dy>> ELSE FzSum(v)
\* Every validator is within camera_max_age_ms of the primary, so the vote
\* counts those of magnitude >= min_mag.
FzCounted(src) ==
    {v \in FzVals(src) :
        FzValVec(v)[1] * FzValVec(v)[1] + FzValVec(v)[2] * FzValVec(v)[2]
            >= FzSqOf(fz.config.min_mag)}
FzAgreeing(src) ==
    {v \in FzCounted(src) :
        AngleDiffLe(FzSum(src)[1], FzSum(src)[2], FzValVec(v)[1], FzValVec(v)[2],
                    fz.config.max_angle_deg)}
FzVoteOk(src) ==
    \/ FzMagSq(src) < FzSqOf(fz.config.min_mag)
    \/ 1 + Cardinality(FzAgreeing(src)) >= ((1 + Cardinality(FzCounted(src))) \div 2) + 1
\* The camera stillness veto applies to the IMU primary src.
FzVetoed(src) ==
    /\ fz.config.camera_gate_enabled /\ FzCamOn /\ FzCamInTime
    /\ FzCamMagSq <= FzSqOf(fz.config.camera_still_px)
    /\ \/ FzMagSq(src) <= FzSqOf(fz.config.imu_min_px_when_camera_still)
       \/ /\ fz.last_out # <<0, 0>>
          /\ FzSum(src)[1] * fz.last_out[1] + FzSum(src)[2] * fz.last_out[2] < 0
          /\ FzMagSq(src) <= FzSqOf(fz.config.imu_opposite_max_px_when_camera_still)
FzArbitrated(src) ==
    FzDone /\ FzImuPrimary(src) /\ fz.enabled[src] /\ ~FzVetoed(src)

\* C23: for an enabled IMU primary that the camera stillness veto does not
\* stop and that has at least two validators, compute_raw_delta returns the
\* primary's sum when the vote is ok and (0, 0) otherwise; it never returns
\* the primary scaled by weak_fallback_scale.
C23_ManyValidators ==
    \A src \in IMU_SOURCES :
        (FzArbitrated(src) /\ Cardinality(FzVals(src)) >= 2)
        => fz.out = (IF FzVoteOk(src) THEN FzSum(src) ELSE <<0, 0>>)

\* accel is the primary, a second pending source and last[camera] are its
\* validators, both are counted and neither agrees: the result is (0, 0),
\* where the scaled primary is not.
C23_Witness ==
    /\ FzArbitrated("accel")
    /\ Cardinality(FzVals("accel")) = 2 /\ "last[camera]" \in FzVals("accel")
    /\ Cardinality(FzCounted("accel")) = 2
    /\ ~FzVoteOk("accel")
    /\ WeakScale(Entry(fz.pending, "accel"), fz.config) # <<0, 0>>
    /\ fz.out = <<0, 0>>

\* The IMU primary src has exactly one validator, a pending source and not
\* last[camera], and the vote on it fails.
FzLoneValidatorFails(src) ==
    /\ FzArbitrated(src)
    /\ Cardinality(FzVals(src)) = 1 /\ "last[camera]" \notin FzVals(src)
    /\ ~FzVoteOk(src)
FzScaled(src) ==
    <<TruncDiv(FzSum(src)[1] * fz.config.weak_fallback_scale, 100),
      TruncDiv(FzSum(src)[2] * fz.config.weak_fallback_scale, 100)>>
FzLastOutAgrees(src) ==
    AngleDiffLe(FzSum(src)[1], FzSum(src)[2], fz.last_out[1], fz.last_out[2],
                fz.config.max_angle_deg)
FzLastOutMagSq == fz.last_out[1] * fz.last_out[1] + fz.last_out[2] * fz.last_out[2]

\* C24, as stated: when the one validator of an enabled IMU primary is not
\* the fresh camera entry and the vote fails, compute_raw_delta returns
\* primary * weak_fallback_scale if last_out = (0, 0); otherwise it returns
\* the unscaled primary if last_out lies within max_angle_deg of the
\* primary, and primary * weak_fallback_scale if not.
C24_AsStated ==
    \A src \in IMU_SOURCES :
        FzLoneValidatorFails(src)
        => fz.out = (IF fz.last_out = <<0, 0>> THEN FzScaled(src)
                     ELSE IF FzLastOutAgrees(src) THEN FzSum(src)
                     ELSE FzScaled(src))

\* C24, amended: the same, except that a non-zero last_out of magnitude
\* below min_mag is not counted by the second vote, which is then ok: the
\* unscaled primary is returned when last_out lies within max_angle_deg of
\* the primary or |last_out| < min_mag.
C24_WeakFallback ==
    \A src \in IMU_SOURCES :
        FzLoneValidatorFails(src)
        => fz.out = (IF fz.last_out = <<0, 0>> THEN FzScaled(src)
                     ELSE IF FzLastOutAgrees(src)
                             \/ FzLastOutMagSq < FzSqOf(fz.config.min_mag)
                     THEN FzSum(src)
                     ELSE FzScaled(src))

\* The one pending validator disagrees with accel, last_out is counted and
\* points away from accel as well: the scaled primary is returned.
C24_Witness ==
    /\ FzLoneValidatorFails("accel")
    /\ fz.last_out # <<0, 0>>
    /\ FzLastOutMagSq >= FzSqOf(fz.config.min_mag)
    /\ ~FzLastOutAgrees("accel")
    /\ fz.out = FzScaled("accel")
    /\ fz.out # FzSum("accel") /\ fz.out # <<0, 0>>

\* The camera entry of the last map is not fresh: absent, invalid, older
\* than camera_max_age_ms or later than now_ms; or the camera is disabled,
\* or the camera gate is off.
FzCamAbsent == "camera" \notin DOMAIN fz.last_motion
FzCamNotFresh ==
    \/ FzCamAbsent
    \/ ~FzCam.valid
    \/ fz.now_ms - FzCam.ts_ms > fz.config.camera_max_age_ms
    \/ FzCam.ts_ms > fz.now_ms
    \/ ~FzCamOn
    \/ ~fz.config.camera_gate_enabled

\* the result of the same call with no camera entry in the last map
FzOutWithoutCam ==
    compute_raw_delta(fz.pending, fz.enabled, <<>>, fz.last_out, fz.now_ms,
                      fz.config)

\* C33: when the camera entry of the last map is not fresh (absent, invalid,
\* too old, from the future) or the camera is disabled or the gate is off,
\* compute_raw_delta returns for an IMU primary what it returns with no
\* camera entry in the last map: no stillness veto, no camera validator.
C33_NonFreshCameraIgnored ==
    (FzDone /\ fz.primary \in IMU_SOURCES /\ FzCamNotFresh)
        => fz.out = FzOutWithoutCam

\* An enabled accel primary with a camera entry that is present but not
\* fresh returns its sum, where the same entry with a fresh timestamp would
\* have zeroed it (by the stillness veto or as a disagreeing validator).
C33_Witness ==
    /\ FzDone /\ fz.primary = "accel" /\ FzOn("accel")
    /\ FzCamNotFresh /\ ~FzCamAbsent
    /\ fz.out = FzSum("accel") /\ fz.out # <<0, 0>>
    /\ compute_raw_delta(fz.pending, [fz.enabled EXCEPT !["camera"] = TRUE],
           [fz.last_motion EXCEPT !["camera"].ts_ms = fz.now_ms - 10,
                                  !["camera"].valid = TRUE],
           fz.last_out, fz.now_ms,
           [fz.config EXCEPT !.camera_gate_enabled = TRUE]) = <<0, 0>>

\* The three values compute_raw_delta can return for the pending map.
FzShapes ==
    IF FzLive = {} THEN {<<0, 0>>}
    ELSE {<<0, 0>>, FzSum(FzExpectedPrimary), FzScaled(FzExpectedPrimary)}

\* C34: compute_raw_delta returns (0, 0), the primary source's sum, or that
\* sum times weak_fallback_scale, never a validator's delta or a blend of
\* sources; and the call changes neither the pending map nor the last map.
C34_OutputShape ==
    /\ [](FzDone => fz.out \in FzShapes)
    /\ [][fz.pc = "call" =>
             /\ fz'.pending = fz.pending
             /\ fz'.last_motion = fz.last_motion]_vars

\* An accel primary with a disagreeing gyro validator and a recent, valid,
\* non-zero camera entry in the last map: the result is the accel's sum
\* times the scale, and is neither of the sums nor (0, 0).
C34_Witness ==
    /\ FzDone /\ fz.primary = "accel" /\ fz.primary = FzExpectedPrimary
    /\ FzLive = {"accel", "gyro"} /\ FzSum("gyro") # FzSum("accel")
    /\ "camera" \in DOMAIN fz.last_motion /\ FzCamInTime /\ FzCamMagSq > 0
    /\ fz.out = FzScaled("accel")
    /\ fz.out \notin {<<0, 0>>, FzSum("accel"), FzSum("gyro")}

----------------------------------------------------------------------------
(* Properties of majority_validate_direction (SpecVote) *)

\* C6: for a valid primary whose magnitude is below min_mag the result is
\* (ok = true, total_votes = 1, yes_votes = 1), whatever the validators.
C6_SelfCount ==
    ( /\ vt.pc = "done" /\ vt.primary.valid
      /\ vt.primary.dx * vt.primary.dx + vt.primary.dy * vt.primary.dy
            < vt.min_mag * vt.min_mag )
    => vt.result = [ok |-> TRUE, total_votes |-> 1, yes_votes |-> 1]

C6_Witness ==
    /\ vt.pc = "done" /\ vt.primary.valid
    /\ vt.primary # MotionDelta(0, 0, VtNow, TRUE)
    /\ vt.primary.dx * vt.primary.dx + vt.primary.dy * vt.primary.dy
          < vt.min_mag * vt.min_mag
    /\ Len(vt.validators) = 2
    /\ \E i \in 1..2 :
          /\ vt.validators[i].valid
          /\ vt.validators[i].ts_ms = VtNow + 10
          /\ vt.validators[i].dx = -Px(10)
    /\ vt.result = [ok |-> TRUE, total_votes |-> 1, yes_votes |-> 1]

VtDone == vt.pc = "done"
VtMagSq(m) == m.dx * m.dx + m.dy * m.dy
VtPrimaryCounts == vt.primary.valid /\ VtMagSq(vt.primary) >= vt.min_mag * vt.min_mag
\* A validator the vote passes over: invalid, more than max_age_ms before
\* or after the primary, or shorter than min_mag.
VtSkipped(v) ==
    \/ ~v.valid
    \/ v.ts_ms - vt.primary.ts_ms > vt.max_age_ms
    \/ vt.primary.ts_ms - v.ts_ms > vt.max_age_ms
    \/ VtMagSq(v) < vt.min_mag * vt.min_mag
VtCounted == {i \in 1..Len(vt.validators) : ~VtSkipped(vt.validators[i])}
VtAgreeing ==
    {i \in VtCounted :
        AngleDiffLe(vt.primary.dx, vt.primary.dy,
                    vt.validators[i].dx, vt.validators[i].dy, vt.max_angle_deg)}

\* C25: every result has 0 <= yes_votes <= total_votes; for a valid primary
\* of magnitude >= min_mag, total_votes is 1 + the number of counted
\* validators, yes_votes is 1 + the number of counted validators within
\* max_angle_deg of the primary, and ok holds exactly when
\* yes_votes >= floor(total_votes / 2) + 1; for an invalid primary the
\* result is (ok = false, 0, 0).
C25_MajorityRule ==
    VtDone =>
        /\ 0 <= vt.result.yes_votes /\ vt.result.yes_votes <= vt.result.total_votes
        /\ VtPrimaryCounts =>
              /\ vt.result.total_votes = 1 + Cardinality(VtCounted)
              /\ vt.result.yes_votes = 1 + Cardinality(VtAgreeing)
              /\ vt.result.ok <=>
                    (vt.result.yes_votes >= (vt.result.total_votes \div 2) + 1)
        /\ ~vt.primary.valid =>
              vt.result = [ok |-> FALSE, total_votes |-> 0, yes_votes |-> 0]

\* A tie: one counted validator that disagrees gives 1 yes of 2 votes,
\* which is not ok.
C25_Witness ==
    /\ VtDone /\ VtPrimaryCounts
    /\ Cardinality(VtCounted) = 1 /\ VtAgreeing = {}
    /\ vt.result = [ok |-> FALSE, total_votes |-> 2, yes_votes |-> 1]

\* The validators of the call without the ones the vote passes over.
VtKept == SelectSeq(vt.validators, LAMBDA v : ~VtSkipped(v))

\* C26: a validator that is invalid, more than max_age_ms away from the
\* primary in either direction, or shorter than min_mag adds to neither
\* total_votes nor yes_votes: the result of the call is the result on the
\* list without these validators, and total_votes is at most 1 + the
\* number of the others.
C26_Skipping ==
    VtDone =>
        /\ vt.result = majority_validate_direction(vt.primary, VtKept,
                           vt.max_age_ms, vt.min_mag, vt.max_angle_deg)
        /\ vt.result.total_votes <= 1 + Len(VtKept)

\* A validator 500 ms after the primary that points the primary's way is
\* passed over, and the one counted validator disagrees: 1 yes of 2 votes.
C26_Witness ==
    /\ VtDone /\ VtPrimaryCounts
    /\ Len(vt.validators) = 2 /\ Len(VtKept) = 1
    /\ \E i \in 1..2 :
          /\ vt.validators[i].valid
          /\ vt.validators[i].ts_ms - vt.primary.ts_ms > vt.max_age_ms
          /\ AngleDiffLe(vt.primary.dx, vt.primary.dy,
                         vt.validators[i].dx, vt.validators[i].dy, vt.max_angle_deg)
    /\ vt.result = [ok |-> FALSE, total_votes |-> 2, yes_votes |-> 1]

----------------------------------------------------------------------------
(* Properties of MotionSmoother (SpecSmoother) *)

\* C3: after every apply with max_step_px > 0, each returned component and
\* each component of the stored state (sx, sy) is within +-max_step_px.
C3_SmootherBound ==
    (sm_out.op = "apply" /\ smoother.max_step_px > 0)
    =>
    /\ Abs(sm_out.x) <= smoother.max_step_px
    /\ Abs(sm_out.y) <= smoother.max_step_px
    /\ Abs(smoother.sx) <= smoother.max_step_px
    /\ Abs(smoother.sy) <= smoother.max_step_px

\* An apply, under a positive half-life, that clipped both components.
C3_Witness ==
    /\ sm_out.op = "apply" /\ smoother.max_step_px > 0
    /\ smoother.half_life_ms > 0
    /\ sm_out.x = -smoother.max_step_px /\ smoother.sx = -smoother.max_step_px
    /\ sm_out.y = smoother.max_step_px /\ smoother.sy = smoother.max_step_px

----------------------------------------------------------------------------
(* Properties of the IMU trackers (SpecImu) *)

LogLast == imu_log[Len(imu_log)]
LogPrev == imu_log[Len(imu_log) - 1]

\* The sample carries a numeric timestamp and numeric components for trk.
WellFormed(trk, s) ==
    /\ s.ts.k = "num"
    /\ trk = "accel" => s.ax.k = "num" /\ s.ay.k = "num"
    /\ trk = "gyro" => s.gy.k = "num" /\ s.gz.k = "num"
    /\ trk = "orientation" => s.beta.k = "num" /\ s.gamma.k = "num"

\* dt <= 0 or dt > 0.2 s, in milliseconds
OutsideGate(dt_ms) == dt_ms <= 0 \/ dt_ms > 200

\* The logged call was a well-formed sample whose dt to the previously
\* accepted sample is outside the gate.
IsGapCall(e) ==
    /\ e.op = "sample"
    /\ WellFormed(imu_trk, e.sample)
    /\ e.pre.last_ts_ms # None
    /\ OutsideGate(e.sample.ts.v - e.pre.last_ts_ms[1])

DampedOf(e) ==
    LET dt == e.sample.ts.v - e.pre.last_ts_ms[1]
    IN  IF imu_trk = "accel"
        THEN AccelDamped(e.pre, e.sample.ax.v, e.sample.ay.v, dt)
        ELSE GyroDamped(e.pre, e.sample.gy.v, e.sample.gz.v, dt)

Flips(prev, new) == (prev > 0 /\ new < 0) \/ (prev < 0 /\ new > 0)

\* C5: in AccelTracker and GyroTracker, on every valid sample no velocity
\* component has the opposite sign of its previous value, and a component
\* whose damped update would flip the sign of a non-zero value becomes 0.
C5_ZeroCrossing ==
    ( /\ imu_trk \in {"accel", "gyro"}
      /\ Len(imu_log) >= 1 /\ LogLast.op = "sample" /\ LogLast.out.valid )
    =>
    LET pre == LogLast.pre
        post == TrackerState(imu_trk)
        d == DampedOf(LogLast)
    IN  /\ ~Flips(pre.vx, post.vx)
        /\ ~Flips(pre.vy, post.vy)
        /\ Flips(pre.vx, d.vx) => post.vx = 0
        /\ Flips(pre.vy, d.vy) => post.vy = 0

C5_Witness ==
    /\ imu_trk = "accel"
    /\ Len(imu_log) >= 1 /\ LogLast.op = "sample" /\ LogLast.out.valid
    /\ LogLast.pre.vx > 0
    /\ DampedOf(LogLast).vx < 0
    /\ accel.vx = 0
    /\ LogLast.out.dx = 0

\* C17, as stated: every MotionDelta an IMU tracker returns with
\* valid = true has ts_ms >= 0, whatever the samples were.
C17_AsStated ==
    \A i \in 1..Len(imu_log) :
        (imu_log[i].op = "sample" /\ imu_log[i].out.valid)
            => imu_log[i].out.ts_ms >= 0

\* The wrapped beta difference the logged orientation call integrated:
\* vy = damped vy + d_beta * gain (gain 0.9, in tenths).
WrappedOf(e, post) == (post.vy - TruncDiv(e.pre.vy * 9, 10)) \div 9

\* The raw beta difference of the logged orientation call.
RawBetaOf(e) == e.sample.beta.v - e.pre.last_beta[1]

IsWrapCall(e) ==
    /\ imu_trk = "orientation"
    /\ e.op = "sample" /\ e.out.valid

\* C19, as stated: the wrapped beta difference lies in (-180, 180] and is
\* congruent to the raw difference modulo 360: a raw difference of exactly
\* 180 maps to +180, and 179 -> -179 gives +2.
C19_AsStated ==
    (Len(imu_log) >= 1 /\ IsWrapCall(LogLast))
    =>
    LET d == WrappedOf(LogLast, orientation)
        raw == RawBetaOf(LogLast)
    IN  /\ d > -180 /\ d <= 180
        /\ (d - raw) % 360 = 0
        /\ raw = -358 => d = 2

\* C19, amended: the wrapped beta difference lies in [-180, 180) and is
\* congruent to the raw difference modulo 360: a raw difference of exactly
\* 180 (or -180) maps to -180, and 179 -> -179 gives +2.
C19_WrapRange ==
    (Len(imu_log) >= 1 /\ IsWrapCall(LogLast))
    =>
    LET d == WrappedOf(LogLast, orientation)
        raw == RawBetaOf(LogLast)
    IN  /\ d >= -180 /\ d < 180
        /\ (d - raw) % 360 = 0
        /\ raw \in {180, -180} => d = -180
        /\ raw = -358 => d = 2

C19_Witness ==
    /\ Len(imu_log) >= 1 /\ IsWrapCall(LogLast)
    /\ LogLast.pre.last_beta = Some(179)
    /\ LogLast.sample.beta = Num(-179)
    /\ WrappedOf(LogLast, orientation) = 2

\* The logged call was a sample for trk with the timestamp or a required
\* component missing or not a number.
IsMalformedCall(e) == e.op = "sample" /\ ~WellFormed(imu_trk, e.sample)

\* C27: a sample whose timestamp or required component is missing or not a
\* number returns valid = false and leaves every field of the tracker
\* (velocity, last timestamp, previous inputs, high-pass memory) as it
\* was, so the next call starts from the state the tracker had before it.
C27_InvalidSampleNoEffect ==
    /\ (Len(imu_log) >= 1 /\ IsMalformedCall(LogLast))
          => /\ ~LogLast.out.valid
             /\ LogLast.out.dx = 0 /\ LogLast.out.dy = 0
             /\ TrackerState(imu_trk) = LogLast.pre
    /\ (Len(imu_log) = 2 /\ IsMalformedCall(LogPrev))
          => LogLast.pre = LogPrev.pre

\* A tracker that has a stored timestamp and a non-zero velocity receives a
\* malformed sample: nothing changes.
C27_Witness ==
    /\ Len(imu_log) = 2
    /\ LogPrev.op = "sample" /\ LogPrev.out.valid
    /\ IsMalformedCall(LogLast)
    /\ LogLast.pre.vx # 0 /\ LogLast.pre.last_ts_ms # None
    /\ TrackerState(imu_trk) = LogLast.pre
    /\ ~LogLast.out.valid

\* The state of the tracker after construction and after reset().
TrackerInit(trk) ==
    IF trk = "accel" THEN AccelInit
    ELSE IF trk = "gyro" THEN GyroInit
    ELSE OrientationInit

\* The previous inputs the tracker keeps are those of sample s.
StoresInputs(trk, t, s) ==
    /\ trk = "accel" => t.prev_ax = Some(s.ax.v) /\ t.prev_ay = Some(s.ay.v)
    /\ trk = "orientation" =>
          t.last_beta = Some(s.beta.v) /\ t.last_gamma = Some(s.gamma.v)

\* C28: the first well-formed sample after construction or after reset()
\* only stores its timestamp and inputs and returns valid = false; a
\* tracker returns valid = true only when it had a stored timestamp.
C28_FirstSample ==
    /\ ( /\ Len(imu_log) >= 1 /\ LogLast.op = "sample"
         /\ WellFormed(imu_trk, LogLast.sample)
         /\ \/ LogLast.pre = TrackerInit(imu_trk)
            \/ Len(imu_log) = 1 /\ imu_n = 1
            \/ Len(imu_log) = 2 /\ LogPrev.op = "reset" )
          => /\ ~LogLast.out.valid
             /\ TrackerState(imu_trk).last_ts_ms = Some(LogLast.sample.ts.v)
             /\ StoresInputs(imu_trk, TrackerState(imu_trk), LogLast.sample)
             /\ TrackerState(imu_trk).vx = 0 /\ TrackerState(imu_trk).vy = 0
    /\ \A i \in 1..Len(imu_log) :
          (imu_log[i].op = "sample" /\ imu_log[i].out.valid)
              => imu_log[i].pre.last_ts_ms # None

\* reset() of a tracker that had a stored timestamp, then a well-formed
\* sample 10 ms after that timestamp: it is stored and returns valid = false.
C28_Witness ==
    /\ Len(imu_log) = 2 /\ LogPrev.op = "reset"
    /\ LogPrev.pre.last_ts_ms # None
    /\ LogLast.op = "sample" /\ WellFormed(imu_trk, LogLast.sample)
    /\ LogLast.sample.ts.v - LogPrev.pre.last_ts_ms[1] = 10
    /\ ~LogLast.out.valid
    /\ TrackerState(imu_trk).last_ts_ms = Some(LogLast.sample.ts.v)

\* C29, as stated: in each tracker a sample with dt <= 0 or dt > 0.2 s
\* resets all of the filter state: after it the velocity (vx, vy) is (0, 0)
\* (and the high-pass memory of the AccelTracker is 0).
C29_AsStated ==
    (Len(imu_log) >= 1 /\ IsGapCall(LogLast))
    => /\ TrackerState(imu_trk).vx = 0 /\ TrackerState(imu_trk).vy = 0
       /\ imu_trk = "accel" => accel.hp_ax = 0 /\ accel.hp_ay = 0

\* The logged call was an AccelTracker sample that was integrated
\* (valid = true) from rest.
IsFromRestCall(e) ==
    /\ imu_trk = "accel"
    /\ e.op = "sample" /\ e.out.valid
    /\ e.pre.vx = 0 /\ e.pre.vy = 0

\* The effective acceleration of the sample just processed: the high-pass
\* output the tracker keeps, zeroed inside the dead zone; its squared
\* magnitude.
EffectiveAccel ==
    IF accel.hp_ax * accel.hp_ax + accel.hp_ay * accel.hp_ay
          < AccelParams.deadzone_mps2 * AccelParams.deadzone_mps2
    THEN <<0, 0>>
    ELSE <<accel.hp_ax, accel.hp_ay>>
EffectiveMagSq ==
    EffectiveAccel[1] * EffectiveAccel[1] + EffectiveAccel[2] * EffectiveAccel[2]
StartSq == AccelParams.start_mps2 * AccelParams.start_mps2

\* C30: when the AccelTracker's velocity is (0, 0) and the effective
\* acceleration of a valid sample is shorter than start_mps2, the velocity
\* stays (0, 0) and the delta is (0, 0) with valid = true; the velocity
\* leaves (0, 0) only on a sample whose effective acceleration is at least
\* start_mps2 long.
C30_StartThreshold ==
    (Len(imu_log) >= 1 /\ IsFromRestCall(LogLast))
    => /\ EffectiveMagSq < StartSq
            => /\ accel.vx = 0 /\ accel.vy = 0
               /\ LogLast.out.dx = 0 /\ LogLast.out.dy = 0
       /\ (accel.vx # 0 \/ accel.vy # 0) => EffectiveMagSq >= StartSq

\* A sample at rest whose effective acceleration is outside the dead zone
\* and below the start threshold: no motion.
C30_Witness ==
    /\ Len(imu_log) >= 1 /\ IsFromRestCall(LogLast)
    /\ EffectiveMagSq > 0 /\ EffectiveMagSq < StartSq
    /\ accel.vx = 0 /\ accel.vy = 0
    /\ LogLast.out = MotionDelta(0, 0, LogLast.sample.ts.v, TRUE)

----------------------------------------------------------------------------
(* Properties of the MouseController (SpecSink) *)

\* C15: the calls into the OS input facility (move, button down/up, scroll)
\* made by the motion-loop threads and I/O tasks of concurrent sessions
\* never overlap: at most one is executing at any time.
C15_Serialized ==
    /\ sink.executing <= 1
    /\ Cardinality({c \in SinkCallers : sink.pc[c] = "os"}) <= 1

C15_Witness ==
    /\ sink.pc["ml1"] = "os"
    /\ sink.pc["io2"] = "acquire" /\ sink.op["io2"].f = "click"
    /\ sink.pc["ml2"] = "acquire"
    /\ sink.os_calls >= 2

----------------------------------------------------------------------------
(* Properties of the session (Spec) *)

\* What the last tick drained for a source: (0, 0) when the drained map has
\* no entry for it.
DrainedSum(src) ==
    IF src \in Keys(gh.drained.map)
    THEN <<Entry(gh.drained.map, src).dx, Entry(gh.drained.map, src).dy>>
    ELSE <<0, 0>>

\* C1, as the specification states it: for each source, what a tick drains
\* is the sum of every delta written for it since the previous drain,
\* whatever messages were handled in between.
C1_AsStated == \A src \in Sources : DrainedSum(src) = gh.drained.all[src]

\* C1: for each source, what a tick drains is the sum of every delta written
\* for it since the previous drain or, when a config message emptied the
\* pending map after that drain, since the last such emptying.
C1_AccumulatorExact == \A src \in Sources : DrainedSum(src) = gh.drained.kept[src]

\* A tick drained a non-zero sum for a source of which an earlier write,
\* made after the previous drain, had been dropped by a config message.
C1_Witness ==
    \E src \in Sources :
        /\ gh.drained.kept[src] # <<0, 0>>
        /\ gh.drained.all[src] # gh.drained.kept[src]
        /\ DrainedSum(src) = gh.drained.kept[src]

\* C10, as the specification states it: when the server is about to send the
\* configured reply, every tracker is in its initial state, the smoother
\* state is (0, 0), the last map and the pending map are empty and the frame
\* announcement is cleared, whatever the motion loop did in the meantime.
C10_AsStated ==
    io.pc = "cfg_reply" =>
        /\ accel = AccelInit
        /\ gyro = GyroInit
        /\ orientation = OrientationInit
        /\ vision = VisionInit
        /\ smoother.sx = 0 /\ smoother.sy = 0
        /\ DOMAIN ses.last = {}
        /\ ses.pending = <<>>
        /\ ses.pending_frame_meta = None

\* C11: every way the connection ends sets the stop event; once it is set the
\* motion loop eventually exits, it starts no tick after the signal, and at
\* most one move (the tick in progress) is dispatched after it.
C11_Stop ==
    /\ [](io.pc \in {"join", "closed"} => ses.stop_event)
    /\ [](~ml.late /\ mouse.after_stop <= 1)
    /\ (ses.stop_event ~> ml.pc = "exit")

C11_Witness ==
    /\ ses.stop_event /\ ml.pc = "exit"
    /\ mouse.after_stop = 1
    /\ io.why = "disconnect"

\* The handler's own state, which a message that is only answered or
\* dropped leaves alone.
Preserved ==
    /\ ses' = ses
    /\ UNCHANGED <<accel, gyro, orientation, vision, smoother, mouse, gh>>

\* A text whose payload is not an object, or lacks a string t.
ProtocolFault(m) == m.t = "raw" /\ m.fault \in {"not_object", "no_t"}

\* C12, as stated: after a text message whose payload is not a JSON object
\* or whose t is missing, the server has replied with one error and the
\* session continues: the receive loop was not left because of it and the
\* motion loop was not told to stop.
C12_AsStated ==
    (ProtocolFault(io.msg) /\ io.pc \notin {"raw", "error"})
    => /\ io.replies = <<"error">>
       /\ io.why # "error"
       /\ io.pc = "recv"
       /\ ~ses.stop_event

\* C13: a well-formed message of unknown type produces exactly one error
\* reply and changes no session state, and the receive loop goes on to the
\* next message.
C13_UnknownType ==
    [][(io.pc = "unknown" /\ io' # io)
        => /\ io'.replies = <<"error">>
           /\ io'.pc = "recv" /\ io'.why = "open"
           /\ Preserved]_vars

C13_Witness ==
    /\ io.msg = UnknownMsg /\ io.pc = "recv" /\ io.n = 2
    /\ io.replies = <<"error">> /\ io.why = "open"
    /\ ~ses.stop_event /\ ml.pc # "exit"
    /\ ses.pending # <<>>

\* Malformed JSON, a scalar of the wrong type, or a sample with a field
\* that is no number.
TransientFault(m) ==
    \/ m.t = "raw" /\ m.fault = "malformed"
    \/ m.t = "move.delta" /\ ~m.num
    \/ m.t = "imu.sample" /\ "bad" \in {m.sample.ts.k, m.sample.ax.k, m.sample.ay.k}

\* C14, as stated: handling a message with malformed JSON, a wrong scalar
\* type or a missing field sends no reply, leaves the session state
\* (trackers, last, pending, configuration) as it was, and ends with the
\* receive loop going on to the next message.
C14_AsStated ==
    [][(TransientFault(io.msg) /\ io.pc # "recv" /\ io' # io)
        => /\ io'.replies = <<>>
           /\ io'.why = "open"
           /\ io'.pc \notin {"error", "finally", "join", "closed"}
           /\ Preserved]_vars

\* What the pending map holds for a source: (0, 0) when it has no entry.
PendingSum(src) ==
    IF src \in Keys(ses.pending)
    THEN <<Entry(ses.pending, src).dx, Entry(ses.pending, src).dy>>
    ELSE <<0, 0>>

C18_Pairing ==
    /\ ses.pending_frame_meta = io.latest
    /\ io.cam.delta => (io.cam.used # None /\ io.cam.used = io.cam.latest)
    /\ io.cam.used = None => ~io.cam.delta
    /\ (io.cam.used # None /\ io.pc # "cam.frame")
          => ses.pending_frame_meta = None

\* A payload was processed with the record of the latest cam.frame, which
\* had replaced an earlier record that no payload used.
C18_Witness ==
    /\ io.cam.delta /\ io.cam.replaced
    /\ io.cam.used = Some([ts |-> Num(5), mime_ok |-> TRUE])
    /\ ses.pending_frame_meta = None

\* C31: a tick calls the sink's move and writes last_out exactly when its
\* smoothed result is non-zero, both with that result, and nothing else in
\* the session does either; hence last_out is always the delta dispatched
\* last, (0, 0) before the first dispatch, and the motion loop never
\* dispatches (0, 0).
C31_DispatchLastOut ==
    /\ [](/\ ses.last_out = mouse.last
          /\ mouse.moves = 0 => mouse.last = <<0, 0>>
          /\ mouse.moves # 0 => mouse.last # <<0, 0>>)
    /\ [][(ml.pc = "dispatch" /\ ml'.pc # "dispatch")
            => IF ml.out # <<0, 0>>
               THEN /\ mouse'.moves = 1 /\ mouse'.last = ml.out
                    /\ ses'.last_out = ml.out
               ELSE mouse' = mouse /\ ses'.last_out = ses.last_out]_vars
    /\ [][(mouse' # mouse \/ ses'.last_out # ses.last_out)
            => (ml.pc = "dispatch" /\ ml'.pc # "dispatch")]_vars

\* The second tick's result is (0, 0) after the first tick dispatched a
\* move: no call, and last_out still is the first tick's delta.
C31_Witness ==
    /\ ml.ticks = 2 /\ ml.pc = "check"
    /\ ml.out = <<0, 0>>
    /\ mouse.moves = 1 /\ mouse.last # <<0, 0>>
    /\ ses.last_out = mouse.last

\* A step of the config handler, which the motion loop may interleave with.
CfgPcs == {"config", "cfg_smoother", "cfg_reset", "cfg_clear", "cfg_reply"}
CfgStep == io.pc \in CfgPcs /\ io' # io

\* C35: the config handler resets the trackers, the smoother, last and
\* pending, and none of its steps changes last_out; once a non-zero delta was
\* dispatched, last_out is non-zero in every later state of the session, so
\* compute_raw_delta sees last_out = (0, 0) only before the first dispatch.
C35_ConfigKeepsLastOut ==
    /\ [][CfgStep => ses'.last_out = ses.last_out]_vars
    /\ [][(CfgStep /\ io.pc = "cfg_smoother")
             => smoother'.sx = 0 /\ smoother'.sy = 0]_vars
    /\ [][(CfgStep /\ io.pc = "cfg_reset")
             => /\ ses'.last = <<>>
                /\ accel' = AccelInit /\ gyro' = GyroInit
                /\ orientation' = OrientationInit /\ vision' = VisionInit]_vars
    /\ [][(CfgStep /\ io.pc = "cfg_clear") => ses'.pending = <<>>]_vars
    /\ [][ses.last_out # <<0, 0>> => ses'.last_out # <<0, 0>>]_vars
    /\ [](mouse.moves # 0 => ses.last_out # <<0, 0>>)

\* A config message was handled to its reply after a move was dispatched:
\* last and pending are empty, last_out still is the dispatched delta.
C35_Witness ==
    /\ io.pc = "recv" /\ io.msg.t = "config"
    /\ io.replies = <<"server.state">>
    /\ mouse.moves = 1 /\ ses.last_out = mouse.last /\ ses.last_out # <<0, 0>>
    /\ ses.last = <<>> /\ ses.pending = <<>>

\* C36: every (dx, dy) the motion loop passes to the sink has |dx| <= 120
\* and |dy| <= 120, whatever the sensitivity, whatever configs were handled,
\* and however the config handler's steps interleave with the loop's.
C36_StepBound ==
    /\ [](mouse.moves # 0 =>
             /\ Abs(mouse.last[1]) <= MAX_STEP_PX
             /\ Abs(mouse.last[2]) <= MAX_STEP_PX)
    /\ [][(ml.pc = "dispatch" /\ ml'.pc # "dispatch" /\ ml.out # <<0, 0>>)
             => /\ mouse'.last = ml.out
                /\ Abs(ml.out[1]) <= MAX_STEP_PX
                /\ Abs(ml.out[2]) <= MAX_STEP_PX]_vars

\* With a sensitivity of -3 three swipes to the right give -315 px, and the
\* sink got exactly -120 px.
C36_Witness ==
    /\ ses.sensitivity = -3
    /\ ml.dx = -Px(315) /\ ml.out[1] = -MAX_STEP_PX
    /\ mouse.moves = 1 /\ mouse.last = ml.out

----------------------------------------------------------------------------
(* Properties of the VisionTracker (SpecVision) *)

VzFrame == vz.call.op = "frame"

\* the features the flow starts from (lines 70-71)
VzPts ==
    IF vz.call.pre.prev_pts = None \/ vz.call.pre.prev_pts[1] = "few"
    THEN Detected(vz.call.o.detect)
    ELSE vz.call.pre.prev_pts

VzFirstFrame == VzFrame /\ vz.call.pre.prev_gray = None
VzNoFeatures == VzFrame /\ vz.call.pre.prev_gray # None /\ VzPts = None
VzFlowRuns == VzFrame /\ vz.call.pre.prev_gray # None /\ VzPts # None

\* the library's failures on a frame whose flow runs
VzLibraryFails ==
    VzFlowRuns /\ vz.call.o.flow \in FlowResets \cup {"no_inliers", "raises"}

VzReturnsInvalid == ~vz.call.raised /\ ~vz.call.out.valid
VzStoresFrame == vz.state.prev_gray = Some(vz.call.frame)

\* C32: on the first frame after construction or reset, on a frame with no
\* features to start from, and on every failure of the image library
\* (optical flow returns null, no track survives, too few survivors, no
\* inliers, the call raises), process_bgr returns valid = false, the stored
\* previous image is the current frame, and the stored feature set is
\* cleared or detected on that same frame.
C32_AsStated ==
    /\ VzFirstFrame =>
        /\ VzReturnsInvalid /\ VzStoresFrame
        /\ vz.state.prev_pts = Detected(vz.call.o.detect)
    /\ VzNoFeatures =>
        /\ VzReturnsInvalid /\ VzStoresFrame
        /\ vz.state.prev_pts = Detected(vz.call.o.redetect)
    /\ VzLibraryFails =>
        /\ VzReturnsInvalid /\ VzStoresFrame
        /\ vz.state.prev_pts = None

----------------------------------------------------------------------------
(* Properties of the config handler (SpecConfig) *)

\* C20: a config message handled right after the same config message
\* leaves the session fields and the smoother (configuration and reset
\* filter state) as the first handling left them.
C20_Idempotent ==
    (cf.prev # None /\ cf.prev[1].m = cf.m)
    => /\ ses = cf.prev[1].ses
       /\ smoother = cf.prev[1].smoother

\* The message whose cameraFps is clamped to 240 and whose negative
\* smoothing values become 0 was handled twice, from 15 or 30 fps.
C20_Witness ==
    /\ cf.prev # None /\ cf.prev[1].m = cf.m
    /\ cf.m.cameraFps = Some(500)
    /\ ses.camera_fps = 240 /\ ses.tick_hz = 240
    /\ ses.screen_angle_deg = 90
    /\ smoother.half_life_ms = 0 /\ smoother.sx = 0

====
